---- MODULE Spec2Model ----
(***************************************************************************)
(* Navigation and movement engine of the isometric demo:                   *)
(*   - NavigationGrid   (src/src/modules/navigation/navigationGrid.ts)     *)
(*   - findNavigationPath (src/src/modules/navigation/pathfinding.ts)      *)
(*   - the movement coordinator of PixiRenderer (src/src/app/PixiRenderer) *)
(*                                                                         *)
(* Numbers.  Terrain costs are fixed-point tenths (10 stands for 1.0), the *)
(* step distances 1 and 1.41421356237 are fixed-point 1e-5 units, so path  *)
(* costs g and f are integers in 1e-6 units.  Non-finite numbers are the   *)
(* records PosInf / NaN.  Identifiers are non-empty strings; the empty     *)
(* string stands for JavaScript's undefined (both are falsy in the code).  *)
(***************************************************************************)
EXTENDS Integers, Sequences, FiniteSets, TLC

(***************************************************************************)
(* Numbers                                                                 *)
(***************************************************************************)
Fin(n) == [kind |-> "fin", v |-> n]
PosInf == [kind |-> "inf", v |-> 0]
NaN == [kind |-> "nan", v |-> 0]
isFinite(n) == n.kind = "fin"

\* 1.0 as a terrain cost (tenths)
CostOne == 10

Undefined == ""

Abs(n) == IF n < 0 THEN -n ELSE n
Max2(a, b) == IF a >= b THEN a ELSE b

P(x, y) == [x |-> x, y |-> y]

(***************************************************************************)
(* NavigationGrid                                                          *)
(***************************************************************************)
posKey(pos) == ToString(pos.x) \o "," \o ToString(pos.y)

\* Map.get: the value, or undefined
MapGet(m, k) == IF k \in DOMAIN m THEN m[k] ELSE Undefined
\* Map.set keeps the other entries
MapSet(m, k, v) == [q \in (DOMAIN m) \cup {k} |-> IF q = k THEN v ELSE m[q]]
\* Map.delete
MapDelete(m, k) == [q \in (DOMAIN m) \ {k} |-> m[q]]
EmptyMap == [q \in {} |-> Undefined]


clampTerrainCost(cost) ==
    IF ~isFinite(cost) \/ cost.v <= 0 THEN CostOne ELSE cost.v

EmptyGrid ==
    [tiles |-> EmptyMap, obstacles |-> EmptyMap,
     obstacleByPos |-> EmptyMap, occupiedByPos |-> EmptyMap]

\* tile = [pos, walkable, blocksLos, terrainCost (a number record)]
setTile(g, tile) ==
    [g EXCEPT !.tiles =
        MapSet(g.tiles, posKey(tile.pos),
               [pos |-> tile.pos, walkable |-> tile.walkable,
                blocksLos |-> tile.blocksLos,
                terrainCost |-> clampTerrainCost(tile.terrainCost)])]

\* obstacle = [id, type, pos, state, blocksLos]
setObstacle(g, obstacle) ==
    [g EXCEPT !.obstacles = MapSet(g.obstacles, obstacle.id, obstacle),
              !.obstacleByPos = MapSet(g.obstacleByPos, posKey(obstacle.pos), obstacle.id)]

removeObstacle(g, obstacleId) ==
    IF obstacleId \notin DOMAIN g.obstacles
    THEN g
    ELSE [g EXCEPT !.obstacles = MapDelete(g.obstacles, obstacleId),
                   !.obstacleByPos =
                       MapDelete(g.obstacleByPos, posKey(g.obstacles[obstacleId].pos))]

IsDoorId(g, doorId) ==
    doorId \in DOMAIN g.obstacles /\ g.obstacles[doorId].type = "door"

\* returns [grid, ret]
setDoorState(g, doorId, state) ==
    IF ~IsDoorId(g, doorId)
    THEN [grid |-> g, ret |-> FALSE]
    ELSE [grid |-> [g EXCEPT !.obstacles[doorId].state = state], ret |-> TRUE]

getDoorState(g, doorId) ==
    IF ~IsDoorId(g, doorId) THEN "null" ELSE g.obstacles[doorId].state

\* the lockpick skill that suffices
LockpickThreshold == 60

NoNumber == [kind |-> "undefined", v |-> 0]

\* context = [hasKey, lockpickSkill]: hasKey is "true", "false" or "undefined"
\* (member absent), lockpickSkill a number record or NoNumber (member absent).
\* (context?.lockpickSkill ?? 0) >= 60
canPickAlways(context) == TRUE
canPick(context) ==
    (IF context.lockpickSkill.kind = "undefined" THEN 0 ELSE context.lockpickSkill.v)
        >= LockpickThreshold

\* returns [grid, ret]
tryOpenDoor(g, doorId, context) ==
    IF ~IsDoorId(g, doorId)
    THEN [grid |-> g, ret |-> FALSE]
    ELSE IF g.obstacles[doorId].state = "open"
    THEN [grid |-> g, ret |-> TRUE]
    ELSE IF /\ g.obstacles[doorId].state = "locked"
            /\ ~(context.hasKey = "true")
            /\ ~canPick(context)
    THEN [grid |-> g, ret |-> FALSE]
    ELSE [grid |-> [g EXCEPT !.obstacles[doorId].state = "open"], ret |-> TRUE]

\* setOccupied that records no body
setOccupiedNothing(g, pos, bodyId) == g
setOccupied(g, pos, bodyId) ==
    [g EXCEPT !.occupiedByPos = MapSet(g.occupiedByPos, posKey(pos), bodyId)]

clearOccupied(g, pos) ==
    [g EXCEPT !.occupiedByPos = MapDelete(g.occupiedByPos, posKey(pos))]

isOccupied(g, pos) == posKey(pos) \in DOMAIN g.occupiedByPos

HasTile(g, pos) == posKey(pos) \in DOMAIN g.tiles

\* obstacleByPos.get(key) names an obstacle that obstacles.get(id) still holds
HasObstacleVia(g, pos) ==
    LET obstacleId == MapGet(g.obstacleByPos, posKey(pos))
    IN  obstacleId # Undefined /\ obstacleId \in DOMAIN g.obstacles
\* that obstacle record
ObstacleVia(g, pos) == g.obstacles[g.obstacleByPos[posKey(pos)]]

IgnoresBody(ignoreBodyId, id) == ignoreBodyId # Undefined /\ ignoreBodyId = id

isWalkable(g, pos, ignoreBodyId) ==
    LET key == posKey(pos)
        obstacleId == MapGet(g.obstacleByPos, key)
        hasObstacle == obstacleId # Undefined /\ obstacleId \in DOMAIN g.obstacles
        obstacle == g.obstacles[obstacleId]
        occupied == MapGet(g.occupiedByPos, key)
    IN  IF key \notin DOMAIN g.tiles THEN FALSE
        ELSE IF ~g.tiles[key].walkable THEN FALSE
        ELSE IF hasObstacle /\ obstacle.type = "wall" THEN FALSE
        ELSE IF hasObstacle /\ obstacle.type = "door" /\ obstacle.state # "open" THEN FALSE
        ELSE IF /\ hasObstacle
                /\ obstacle.type = "body"
                /\ ~IgnoresBody(ignoreBodyId, obstacle.id) THEN FALSE
        ELSE IF occupied # Undefined /\ ~IgnoresBody(ignoreBodyId, occupied) THEN FALSE
        ELSE TRUE

movementCost(g, pos) ==
    IF ~HasTile(g, pos) THEN PosInf
    ELSE IF ~isWalkable(g, pos, Undefined) THEN PosInf
    ELSE Fin(clampTerrainCost(Fin(g.tiles[posKey(pos)].terrainCost)))

blocksLos(g, pos) ==
    IF ~HasTile(g, pos) THEN TRUE
    ELSE IF g.tiles[posKey(pos)].blocksLos THEN TRUE
    ELSE IF ~HasObstacleVia(g, pos) THEN FALSE
    ELSE IF ObstacleVia(g, pos).type = "wall" THEN ObstacleVia(g, pos).blocksLos
    ELSE IF ObstacleVia(g, pos).type = "door"
         THEN ObstacleVia(g, pos).blocksLos /\ ObstacleVia(g, pos).state # "open"
    ELSE FALSE

HasDoorAt(g, pos) == HasObstacleVia(g, pos) /\ ObstacleVia(g, pos).type = "door"
\* the snapshot of the door at pos (when HasDoorAt)
getDoorAt(g, pos) == ObstacleVia(g, pos)

(***************************************************************************)
(* findNavigationPath                                                      *)
(***************************************************************************)
\* a null position (resolvedGoal: NavPos | null)
Null == [null |-> TRUE]

keyOf(pos) == ToString(pos.x) \o "," \o ToString(pos.y)

\* a heuristic ten times the distance
heuristicTenfold(a, b, allowDiagonal) ==
    10 * (IF allowDiagonal THEN Max2(Abs(a.x - b.x), Abs(a.y - b.y))
          ELSE Abs(a.x - b.x) + Abs(a.y - b.y))
heuristic(a, b, allowDiagonal) ==
    LET dx == Abs(a.x - b.x)
        dy == Abs(a.y - b.y)
    IN  IF allowDiagonal THEN Max2(dx, dy) ELSE dx + dy

\* neighbors that looks only to the right and down
neighborsForward(pos, allowDiagonal) == << P(pos.x + 1, pos.y), P(pos.x, pos.y + 1) >>
neighbors(pos, allowDiagonal) ==
    LET base == << P(pos.x + 1, pos.y), P(pos.x - 1, pos.y),
                   P(pos.x, pos.y + 1), P(pos.x, pos.y - 1) >>
    IN  IF ~allowDiagonal THEN base
        ELSE base \o << P(pos.x + 1, pos.y + 1), P(pos.x + 1, pos.y - 1),
                        P(pos.x - 1, pos.y + 1), P(pos.x - 1, pos.y - 1) >>

\* closed maps a key to its node; a node is [x, y, g, h, f, parentKey]
RECURSIVE reconstructFrom(_, _)
reconstructFrom(closed, current) ==
    IF current.parentKey = Undefined \/ current.parentKey \notin DOMAIN closed
    THEN << P(current.x, current.y) >>
    ELSE << P(current.x, current.y) >> \o reconstructFrom(closed, closed[current.parentKey])

Reverse(seq) == [i \in 1..Len(seq) |-> seq[Len(seq) + 1 - i]]

\* reconstructPath that leaves the cells in the order it collected them
reconstructPathBackwards(closed, endNode) == reconstructFrom(closed, endNode)
reconstructPath(closed, endNode) == Reverse(reconstructFrom(closed, endNode))

\* 1 and 1.41421356237 in 1e-5 units
StepOrth == 100000
StepDiag == 141421

IsDiagonal(from, to) == from.x # to.x /\ from.y # to.y

stepDistance(from, to) == IF IsDiagonal(from, to) THEN StepDiag ELSE StepOrth

canTraverseDiagonalAny(from, to, grid, preventCornerCutting) == TRUE
canTraverseDiagonal(from, to, grid, preventCornerCutting) ==
    IF ~preventCornerCutting THEN TRUE
    ELSE IF ~IsDiagonal(from, to) THEN TRUE
    ELSE /\ isWalkable(grid, P(to.x, from.y), Undefined)
         /\ isWalkable(grid, P(from.x, to.y), Undefined)

\* the cells of the ring of radius r around the goal, in scan order
\* (rows minY..maxY, in each row minX..maxX, cells off the edge skipped)
RECURSIVE ringScan(_, _, _, _)
ringScan(blockedGoal, r, x, y) ==
    LET minX == blockedGoal.x - r
        maxX == blockedGoal.x + r
        minY == blockedGoal.y - r
        maxY == blockedGoal.y + r
        onEdge == x = minX \/ x = maxX \/ y = minY \/ y = maxY
        rest == IF x < maxX THEN ringScan(blockedGoal, r, x + 1, y)
                ELSE IF y < maxY THEN ringScan(blockedGoal, r, minX, y + 1)
                ELSE << >>
    IN  IF onEdge THEN << P(x, y) >> \o rest ELSE rest

FirstWalkable(grid, cells) ==
    IF \E i \in 1..Len(cells) : isWalkable(grid, cells[i], Undefined)
    THEN cells[CHOOSE i \in 1..Len(cells) :
                  /\ isWalkable(grid, cells[i], Undefined)
                  /\ \A j \in 1..(i - 1) : ~isWalkable(grid, cells[j], Undefined)]
    ELSE Null

RECURSIVE nearestFrom(_, _, _, _)
nearestFrom(blockedGoal, grid, maxRadius, r) ==
    IF r > maxRadius THEN Null
    ELSE LET hit == FirstWalkable(grid, ringScan(blockedGoal, r, blockedGoal.x - r, blockedGoal.y - r))
         IN  IF hit # Null THEN hit
             ELSE nearestFrom(blockedGoal, grid, maxRadius, r + 1)

\* nearestReachableGoal finding nothing
nearestReachableGoalNone(blockedGoal, grid, maxRadius) == Null

\* nearestReachableGoal scanning three rings further than maxRadius
nearestReachableGoalWide(blockedGoal, grid, maxRadius) ==
    nearestFrom(blockedGoal, grid, maxRadius + 3, 1)

nearestReachableGoal(blockedGoal, grid, maxRadius) ==
    nearestFrom(blockedGoal, grid, maxRadius, 1)

\* open is the insertion-ordered Map of the code: a sequence of entries
\* [key, node]; a key set again keeps its place
OpenHas(open, key) == \E i \in 1..Len(open) : open[i].key = key
OpenGet(open, key) == open[CHOOSE i \in 1..Len(open) : open[i].key = key].node
OpenSet(open, key, node) ==
    IF OpenHas(open, key)
    THEN [i \in 1..Len(open) |->
            IF open[i].key = key THEN [key |-> key, node |-> node] ELSE open[i]]
    ELSE Append(open, [key |-> key, node |-> node])
OpenDelete(open, key) == SelectSeq(open, LAMBDA e : e.key # key)

\* the first node, in insertion order, of least f
BestOpen(open) ==
    open[CHOOSE i \in 1..Len(open) :
            /\ \A j \in 1..Len(open) : open[i].node.f <= open[j].node.f
            /\ \A j \in 1..(i - 1) : open[j].node.f > open[i].node.f].node

\* the body of the loop over neighbors(current): open after the neighbours
\* nbrs[i..] were considered
RECURSIVE relaxNeighbors(_, _, _, _, _, _, _, _)
relaxNeighbors(open, closed, current, nbrs, i, resolvedGoal, grid, options) ==
    IF i > Len(nbrs) THEN open
    ELSE
      LET next == nbrs[i]
          nextKey == keyOf(next)
          cost == movementCost(grid, next)
          tentativeG == current.g + stepDistance(current, next) * cost.v
          h == heuristic(next, resolvedGoal, options.allowDiagonal)
          skip ==
            \/ ~isWalkable(grid, next, Undefined)
            \/ ~canTraverseDiagonal(current, next, grid, options.preventCornerCutting)
            \/ nextKey \in DOMAIN closed
            \/ ~isFinite(cost)
            \/ (OpenHas(open, nextKey) /\ tentativeG >= OpenGet(open, nextKey).g)
          open2 ==
            IF skip THEN open
            ELSE OpenSet(open, nextKey,
                         [x |-> next.x, y |-> next.y, g |-> tentativeG,
                          h |-> h * StepOrth * CostOne,
                          f |-> tentativeG + h * StepOrth * CostOne,
                          parentKey |-> keyOf(current)])
      IN  relaxNeighbors(open2, closed, current, nbrs, i + 1, resolvedGoal, grid, options)

\* the while loop; returns [path, resolvedGoal, usedFallback, iterations]
RECURSIVE searchLoop(_, _, _, _, _, _, _)
searchLoop(open, closed, iterations, resolvedGoal, usedFallback, grid, options) ==
    IF ~(Len(open) > 0 /\ iterations < options.maxIterations)
    THEN [path |-> << >>, resolvedGoal |-> Null, usedFallback |-> usedFallback,
          iterations |-> iterations]
    ELSE
      LET current == BestOpen(open)
          currentKey == keyOf(current)
          open1 == OpenDelete(open, currentKey)
          closed1 == MapSet(closed, currentKey, current)
      IN  IF current.x = resolvedGoal.x /\ current.y = resolvedGoal.y
          THEN [path |-> reconstructPath(closed1, current),
                resolvedGoal |-> resolvedGoal, usedFallback |-> usedFallback,
                iterations |-> iterations + 1]
          ELSE searchLoop(
                 relaxNeighbors(open1, closed1, current,
                                neighbors(current, options.allowDiagonal), 1,
                                resolvedGoal, grid, options),
                 closed1, iterations + 1, resolvedGoal, usedFallback, grid, options)

\* options = [allowDiagonal, preventCornerCutting, allowTargetFallback,
\*            maxFallbackRadius, maxIterations], defaults filled in
DefaultOptions ==
    [allowDiagonal |-> TRUE, preventCornerCutting |-> TRUE,
     allowTargetFallback |-> FALSE, maxFallbackRadius |-> 12, maxIterations |-> 5000]

NoPath(usedFallback) ==
    [path |-> << >>, resolvedGoal |-> Null, usedFallback |-> usedFallback, iterations |-> 0]

\* a search that goes on past maxIterations
searchFromUncapped(start, resolvedGoal, usedFallback, grid, options) ==
    IF resolvedGoal = Null THEN NoPath(FALSE)
    ELSE IF start.x = resolvedGoal.x /\ start.y = resolvedGoal.y
    THEN [path |-> << start >>, resolvedGoal |-> resolvedGoal,
          usedFallback |-> usedFallback, iterations |-> 0]
    ELSE LET h0 == heuristic(start, resolvedGoal, options.allowDiagonal)
                     * StepOrth * CostOne
         IN  searchLoop(<< [key |-> keyOf(start),
                            node |-> [x |-> start.x, y |-> start.y, g |-> 0, h |-> h0,
                                      f |-> h0, parentKey |-> Undefined]] >>,
                        EmptyMap, 0, resolvedGoal, usedFallback, grid,
                        [options EXCEPT !.maxIterations = 5000])
\* the search once the goal is resolved; resolvedGoal is Null when no
\* fallback cell was found
searchFrom(start, resolvedGoal, usedFallback, grid, options) ==
    IF resolvedGoal = Null THEN NoPath(FALSE)
    ELSE IF start.x = resolvedGoal.x /\ start.y = resolvedGoal.y
    THEN [path |-> << start >>, resolvedGoal |-> resolvedGoal,
          usedFallback |-> usedFallback, iterations |-> 0]
    ELSE LET h0 == heuristic(start, resolvedGoal, options.allowDiagonal)
                     * StepOrth * CostOne
         IN  searchLoop(<< [key |-> keyOf(start),
                            node |-> [x |-> start.x, y |-> start.y, g |-> 0, h |-> h0,
                                      f |-> h0, parentKey |-> Undefined]] >>,
                        EmptyMap, 0, resolvedGoal, usedFallback, grid, options)

\* findNavigationPath with the number of loop iterations it ran
findNavigationPathRun(start, goal, grid, options) ==
    IF ~isWalkable(grid, start, Undefined) THEN NoPath(FALSE)
    ELSE IF isWalkable(grid, goal, Undefined)
    THEN searchFrom(start, goal, FALSE, grid, options)
    ELSE IF ~options.allowTargetFallback THEN NoPath(FALSE)
    ELSE searchFrom(start, nearestReachableGoal(goal, grid, options.maxFallbackRadius),
                    TRUE, grid, options)

\* the NavigationPathResult of a run
pathResult(run) ==
    [path |-> run.path, resolvedGoal |-> run.resolvedGoal,
     usedFallback |-> run.usedFallback]

findNavigationPath(start, goal, grid, options) ==
    pathResult(findNavigationPathRun(start, goal, grid, options))

(***************************************************************************)
(* State                                                                   *)
(***************************************************************************)
VARIABLES
    \* NavigationGrid
    tiles, obstacles, obstacleByPos, occupiedByPos,
    \* the last call (on the grid, or on the renderer) and what it returned
    call,
    \* the last findNavigationPath call, its result, and the result of the
    \* same call before the door was opened
    query, navResult, prevResult,
    \* RenderingScene: the world (mapSize, tiles, entities)
    world,
    \* PixiRenderer
    playerPath, playerPathIndex, playerTarget, queuedTarget, activeDestination,
    moveAccumulatorMs, repathAttempts, reservedTiles,
    npcPatrolIndex, npcMoveAccumulatorMs, pendingDoorInteraction,
    \* the last status handed to options.onMovementStatus
    movementStatus,
    \* the number of commands (moves, clicks, door actions, exports) handled
    \* so far
    commands,
    \* the steps the last handler committed, each with what the world held at
    \* the destination when it was committed
    stepLog,
    \* the events the last handler handed to scene.dispatch (blocked,
    \* repath_started, repath_failed and the door events) and the "arrived" it
    \* handed to options.onMovementStatus, each with what the renderer (its
    \* reservation table included) and the world held at that moment
    events,
    \* the record the save/load collaborator holds: what
    \* debugExportRuntimeState last returned to it
    saved,
    \* MovementController: its config and its state
    controller

gridVars == << tiles, obstacles, obstacleByPos, occupiedByPos >>
pathVars == << query, navResult, prevResult >>
coordVars ==
    << world, playerPath, playerPathIndex, playerTarget, queuedTarget, activeDestination,
       moveAccumulatorMs, repathAttempts, reservedTiles, npcPatrolIndex,
       npcMoveAccumulatorMs, pendingDoorInteraction, movementStatus, commands,
       stepLog, events >>
vars == << gridVars, call, pathVars, coordVars, saved, controller >>

Grid ==
    [tiles |-> tiles, obstacles |-> obstacles,
     obstacleByPos |-> obstacleByPos, occupiedByPos |-> occupiedByPos]

GridIs(g) ==
    /\ tiles' = g.tiles
    /\ obstacles' = g.obstacles
    /\ obstacleByPos' = g.obstacleByPos
    /\ occupiedByPos' = g.occupiedByPos

NoCall == [op |-> "none"]
\* nothing was exported yet
NoSave == [none |-> TRUE]
\* no MovementController was constructed
NoController == [none |-> TRUE]
NoQuery == [start |-> Null, goal |-> Null, options |-> DefaultOptions]
NoResult == [path |-> << >>, resolvedGoal |-> Null, usedFallback |-> FALSE, none |-> TRUE]

\* a renderer constructed over a scene that has no world
NoWorld == [mapSize |-> [width |-> 1, height |-> 1], tiles |-> << >>, entities |-> << >>]
RendererConstructed ==
    /\ playerPath = << >>
    /\ playerPathIndex = 0
    /\ playerTarget = Null
    /\ queuedTarget = Null
    /\ activeDestination = Null
    /\ moveAccumulatorMs = 0
    /\ repathAttempts = 0
    /\ reservedTiles = EmptyMap
    /\ npcPatrolIndex = 0
    /\ npcMoveAccumulatorMs = 0
    /\ pendingDoorInteraction = Null
    /\ movementStatus = "idle"
    /\ stepLog = << >>
    /\ events = << >>

(***************************************************************************)
(* Path searches over generated grids                                      *)
(***************************************************************************)
\* the grids are 3 x 3, with at most MaxBlocked blocked cells
MaxBlocked == 3
\* the fallback radii and the small iteration cap that are tried
MaxRadius == 2
SmallIterations == 3
\* a goal off the map
FarCell == [x |-> 5, y |-> 5]

Coords == {0, 1, 2}
GridSize == Cardinality(Coords)
Cells == { P(x, y) : x \in Coords, y \in Coords }
CellIndex(pos) == pos.y * GridSize + pos.x

\* how a blocked cell is blocked depends on where it lies, so that every way
\* of blocking occurs
BlockKinds ==
    << "wall", "closedDoor", "lockedDoor", "occupied", "unwalkable", "absent", "body",
       "doorAfterWall" >>
KindAt(pos) == BlockKinds[(CellIndex(pos) % Len(BlockKinds)) + 1]

ObstacleIdAt(pos) == "ob_" \o posKey(pos)

FloorTile(pos, walkable, cost) ==
    [pos |-> pos, walkable |-> walkable, blocksLos |-> FALSE, terrainCost |-> cost]

\* the calls that put one cell into the grid
PlaceCell(g, pos, isBlocked) ==
    LET kind == IF isBlocked THEN KindAt(pos) ELSE "free"
        withTile ==
            IF kind = "absent" THEN g
            ELSE setTile(g, FloorTile(pos, kind # "unwalkable", Fin(CostOne)))
    IN  CASE kind = "wall" ->
               setObstacle(withTile, [id |-> ObstacleIdAt(pos), type |-> "wall", pos |-> pos,
                                      state |-> "n/a", blocksLos |-> TRUE])
          [] kind = "closedDoor" ->
               setObstacle(withTile, [id |-> ObstacleIdAt(pos), type |-> "door", pos |-> pos,
                                      state |-> "closed", blocksLos |-> TRUE])
          [] kind = "lockedDoor" ->
               setObstacle(withTile, [id |-> ObstacleIdAt(pos), type |-> "door", pos |-> pos,
                                      state |-> "locked", blocksLos |-> TRUE])
          [] kind = "body" ->
               setObstacle(withTile, [id |-> ObstacleIdAt(pos), type |-> "body", pos |-> pos,
                                      state |-> "n/a", blocksLos |-> FALSE])
          \* a wall, then a closed door set on its position, then the wall removed
          [] kind = "doorAfterWall" ->
               removeObstacle(
                 setObstacle(
                   setObstacle(withTile, [id |-> "old_" \o posKey(pos), type |-> "wall",
                                          pos |-> pos, state |-> "n/a", blocksLos |-> TRUE]),
                   [id |-> ObstacleIdAt(pos), type |-> "door", pos |-> pos,
                    state |-> "closed", blocksLos |-> TRUE]),
                 "old_" \o posKey(pos))
          [] kind = "occupied" -> setOccupied(withTile, pos, "npc_1")
          [] OTHER -> withTile

RECURSIVE BuildGridFrom(_, _, _)
BuildGridFrom(g, blocked, i) ==
    IF i >= GridSize * GridSize THEN g
    ELSE LET pos == P(i % GridSize, i \div GridSize)
         IN  BuildGridFrom(PlaceCell(g, pos, pos \in blocked), blocked, i + 1)

BuildGrid(blocked) == BuildGridFrom(EmptyGrid, blocked, 0)

BlockedSets == { b \in SUBSET Cells : Cardinality(b) <= MaxBlocked }

\* preventCornerCutting makes no difference without diagonal steps
OptionChoices ==
    { o \in [allowDiagonal : BOOLEAN, preventCornerCutting : BOOLEAN,
             allowTargetFallback : BOOLEAN, maxFallbackRadius : {MaxRadius},
             maxIterations : {SmallIterations, 5000}] :
        ~o.allowDiagonal => o.preventCornerCutting }

PathInit ==
    /\ \E blocked \in BlockedSets : 
          LET g == BuildGrid(blocked)
          IN  /\ tiles = g.tiles
              /\ obstacles = g.obstacles
              /\ obstacleByPos = g.obstacleByPos
              /\ occupiedByPos = g.occupiedByPos
    /\ call = NoCall
    /\ query = NoQuery
    /\ navResult = NoResult
    /\ prevResult = NoResult
    /\ world = NoWorld
    /\ RendererConstructed
    /\ commands = 0
    /\ saved = NoSave
    /\ controller = NoController

\* findNavigationPath(start, goal, grid, options)
Query(start, goal, options) ==
    /\ query = NoQuery
    /\ query' = [start |-> start, goal |-> goal, options |-> options]
    /\ navResult' = findNavigationPath(start, goal, Grid, options)
    /\ prevResult' = NoResult
    /\ UNCHANGED << gridVars, call, coordVars, saved, controller >>

\* setDoorState(doorId, "open") on a door that is closed or locked, and the
\* same findNavigationPath call again
OpenDoorAndQueryAgain(doorId) ==
    /\ query # NoQuery
    /\ prevResult = NoResult
    /\ IsDoorId(Grid, doorId)
    /\ obstacles[doorId].state # "open"
    /\ LET g == setDoorState(Grid, doorId, "open").grid
       IN  /\ GridIs(g)
           /\ navResult' = findNavigationPath(query.start, query.goal, g, query.options)
    /\ prevResult' = navResult
    /\ call' = [op |-> "setDoorState", id |-> doorId, state |-> "open", ret |-> TRUE,
                was |-> obstacles[doorId].state]
    /\ UNCHANGED << query, coordVars, saved, controller >>

PathNext ==
    \/ \E start \in Cells, goal \in Cells \cup {FarCell}, options \in OptionChoices :
          Query(start, goal, options)
    \/ \E doorId \in DOMAIN obstacles : OpenDoorAndQueryAgain(doorId)

SpecPath == PathInit /\ [][PathNext]_vars

(***************************************************************************)
(* What the claims speak about, read off the grid's records                *)
(***************************************************************************)
Chebyshev(a, b) == Max2(Abs(a.x - b.x), Abs(a.y - b.y))

ObstaclesAt(g, pos) == { id \in DOMAIN g.obstacles : g.obstacles[id].pos = pos }
WallAt(g, pos) == \E id \in ObstaclesAt(g, pos) : g.obstacles[id].type = "wall"
ShutDoorAt(g, pos) ==
    \E id \in ObstaclesAt(g, pos) :
        g.obstacles[id].type = "door" /\ g.obstacles[id].state # "open"
BodyAt(g, pos, ignoreBodyId) ==
    \E id \in ObstaclesAt(g, pos) : g.obstacles[id].type = "body" /\ id # ignoreBodyId
OccupantAt(g, pos, ignoreBodyId) ==
    \E k \in DOMAIN g.occupiedByPos :
        k = posKey(pos) /\ g.occupiedByPos[k] # ignoreBodyId
FloorAt(g, pos) ==
    \E k \in DOMAIN g.tiles : g.tiles[k].pos = pos /\ g.tiles[k].walkable

\* a cell an actor may stand on
CellFree(g, pos, ignoreBodyId) ==
    /\ FloorAt(g, pos)
    /\ ~WallAt(g, pos)
    /\ ~ShutDoorAt(g, pos)
    /\ ~BodyAt(g, pos, ignoreBodyId)
    /\ ~OccupantAt(g, pos, ignoreBodyId)

\* one move the grid's records allow under the options
MoveAllowed(g, a, b, options) ==
    /\ CellFree(g, b, Undefined)
    /\ Chebyshev(a, b) = 1
    /\ (IsDiagonal(a, b) => options.allowDiagonal)
    /\ (IsDiagonal(a, b) /\ options.preventCornerCutting =>
            CellFree(g, P(b.x, a.y), Undefined) /\ CellFree(g, P(a.x, b.y), Undefined))

RECURSIVE ReachClosure(_, _, _)
ReachClosure(g, options, seen) ==
    LET more == { b \in Cells : \E a \in seen : MoveAllowed(g, a, b, options) }
    IN  IF more \subseteq seen THEN seen ELSE ReachClosure(g, options, seen \cup more)

\* the cells some sequence of such moves leads to from start
ReachableFrom(g, start, options) ==
    IF CellFree(g, start, Undefined) THEN ReachClosure(g, options, {start}) ELSE {}

\* walkable, as the grid answers it
Walkable(g, pos) == isWalkable(g, pos, Undefined)

\* one move between cells the grid answers walkable
WalkMove(g, a, b, options) ==
    /\ Walkable(g, b)
    /\ Chebyshev(a, b) = 1
    /\ (IsDiagonal(a, b) => options.allowDiagonal)
    /\ (IsDiagonal(a, b) /\ options.preventCornerCutting =>
            Walkable(g, P(b.x, a.y)) /\ Walkable(g, P(a.x, b.y)))

RECURSIVE WalkClosure(_, _, _)
WalkClosure(g, options, seen) ==
    LET more == { b \in Cells : \E a \in seen : WalkMove(g, a, b, options) }
    IN  IF more \subseteq seen THEN seen ELSE WalkClosure(g, options, seen \cup more)

WalkReachableFrom(g, start, options) ==
    IF Walkable(g, start) THEN WalkClosure(g, options, {start}) ELSE {}

Searched == query # NoQuery
PathCells == { navResult.path[i] : i \in 1..Len(navResult.path) }
Last(seq) == seq[Len(seq)]

(***************************************************************************)
(* C1  Every position of a returned path is walkable in the grid, and the  *)
(* path contains no position of a wall, of a door that is not open, or of  *)
(* an occupancy entry.                                                     *)
(***************************************************************************)
C1_PathCellsWalkable ==
    \A i \in 1..Len(navResult.path) :
        LET pos == navResult.path[i]
        IN  /\ Walkable(Grid, pos)
            /\ ~WallAt(Grid, pos)
            /\ ~ShutDoorAt(Grid, pos)
            /\ ~isOccupied(Grid, pos)

(***************************************************************************)
(* C2  With preventCornerCutting, both corner cells of every diagonal step *)
(* of a returned path are walkable.                                        *)
(***************************************************************************)
C2_NoCornerCutting ==
    Searched /\ query.options.preventCornerCutting =>
        \A i \in 1..(Len(navResult.path) - 1) :
            LET a == navResult.path[i]
                b == navResult.path[i + 1]
            IN  IsDiagonal(a, b) =>
                    /\ Walkable(Grid, P(b.x, a.y))
                    /\ Walkable(Grid, P(a.x, b.y))

\* a diagonal from the start would cut the corner of a cell that is not
\* walkable, and the path found takes more steps than an open grid would
\* need, one of them diagonal
C2_Witness ==
    /\ Searched
    /\ query.options.preventCornerCutting
    /\ query.options.allowDiagonal
    /\ \E c \in Cells :
          /\ IsDiagonal(query.start, c)
          /\ Chebyshev(query.start, c) = 1
          /\ Walkable(Grid, c)
          /\ ~Walkable(Grid, P(c.x, query.start.y))
    /\ Len(navResult.path) - 1 > Chebyshev(query.start, query.goal)
    /\ \E i \in 1..(Len(navResult.path) - 1) :
          IsDiagonal(navResult.path[i], navResult.path[i + 1])

(***************************************************************************)
(* C3  Where every route from start to goal passes through the cell of a   *)
(* door, and the iteration cap is not below the number of cells reachable  *)
(* from start: the search returns an empty path while the door is closed   *)
(* or locked, and after setDoorState(door, "open") the same search returns *)
(* a non-empty path that contains the door's cell.                         *)
(***************************************************************************)
DoorOpened == call.op = "setDoorState"
\* the grid as it was before the door was opened
GridBefore == setDoorState(Grid, call.id, call.was).grid
DoorCell == obstacles[call.id].pos
\* start and goal are free cells, neither the door's, and the moves the
\* records allow lead from start to the goal only with the door open
OnlyThroughDoor ==
    /\ DoorOpened
    /\ query.start # DoorCell
    /\ CellFree(GridBefore, query.start, Undefined)
    /\ CellFree(GridBefore, query.goal, Undefined)
    /\ query.goal \in ReachableFrom(Grid, query.start, query.options)
    /\ query.goal \notin ReachableFrom(GridBefore, query.start, query.options)
    /\ query.options.maxIterations >=
          Cardinality(ReachableFrom(Grid, query.start, query.options))

C3_DoorBlocksUntilOpen ==
    OnlyThroughDoor =>
        /\ prevResult.path = << >>
        /\ navResult.path # << >>
        /\ DoorCell \in PathCells

(***************************************************************************)
(* C4  Start walkable, goal not walkable, fallback allowed and a walkable  *)
(* cell within maxFallbackRadius of the goal.                              *)
(***************************************************************************)
WithinRadius(pos) ==
    Chebyshev(pos, query.goal) <= query.options.maxFallbackRadius
FallbackCase ==
    /\ Searched
    /\ Walkable(Grid, query.start)
    /\ ~Walkable(Grid, query.goal)
    /\ query.options.allowTargetFallback
    /\ \E c \in Cells : Walkable(Grid, c) /\ WithinRadius(c)

\* C4 as stated: in that case the search returns usedFallback = true and a
\* resolvedGoal that is walkable, within the radius, and not the goal
C4_FallbackResolves ==
    FallbackCase =>
        /\ navResult.usedFallback
        /\ navResult.resolvedGoal # Null
        /\ Walkable(Grid, navResult.resolvedGoal)
        /\ WithinRadius(navResult.resolvedGoal)
        /\ navResult.resolvedGoal # query.goal

\* C4 amended: in that case the search returns usedFallback = true; when the
\* path is non-empty it ends at resolvedGoal, which is walkable, within the
\* radius, and not the goal; when the path is empty resolvedGoal is null
C4_FallbackResolvesWhenPathFound ==
    FallbackCase =>
        /\ navResult.usedFallback
        /\ navResult.path # << >> =>
              /\ navResult.resolvedGoal # Null
              /\ Last(navResult.path) = navResult.resolvedGoal
              /\ Walkable(Grid, navResult.resolvedGoal)
              /\ WithinRadius(navResult.resolvedGoal)
              /\ navResult.resolvedGoal # query.goal
        /\ navResult.path = << >> => navResult.resolvedGoal = Null

\* the goal is a wall and the search ends two steps or more from start at
\* another cell
C4_Witness ==
    /\ FallbackCase
    /\ WallAt(Grid, query.goal)
    /\ navResult.usedFallback
    /\ Len(navResult.path) >= 3
    /\ navResult.resolvedGoal # query.goal

(***************************************************************************)
(* C5  Goal blocked and fallback allowed: if a walkable cell within        *)
(* maxFallbackRadius of the goal is reachable from start, the search       *)
(* returns a non-empty path ending at a walkable cell within the radius.   *)
(* The iteration cap is the default one, which no search here reaches.     *)
(***************************************************************************)
C5_FallbackReachable ==
    /\ FallbackCase
    /\ query.options.maxIterations = DefaultOptions.maxIterations
    /\ \E c \in WalkReachableFrom(Grid, query.start, query.options) : WithinRadius(c)
    => /\ navResult.path # << >>
       /\ Walkable(Grid, Last(navResult.path))
       /\ WithinRadius(Last(navResult.path))

(***************************************************************************)
(* C6  The search returns an empty path, resolvedGoal null and             *)
(* usedFallback false when start is not walkable, when the goal is not     *)
(* walkable and fallback is not allowed, and when the goal is not walkable *)
(* and no walkable cell lies within maxFallbackRadius of it.               *)
(***************************************************************************)
NothingFound ==
    /\ navResult.path = << >>
    /\ navResult.resolvedGoal = Null
    /\ ~navResult.usedFallback
NoCellInRadius ==
    ~\E c \in Cells : Walkable(Grid, c) /\ WithinRadius(c)

C6_EarlyEmptyResults ==
    Searched =>
        /\ ~Walkable(Grid, query.start) => NothingFound
        /\ ~Walkable(Grid, query.goal) /\ ~query.options.allowTargetFallback
              => NothingFound
        /\ ~Walkable(Grid, query.goal) /\ NoCellInRadius => NothingFound

\* a search from a walkable start, fallback allowed, for a goal with no
\* walkable cell within the radius, on a grid that has walkable cells
C6_Witness ==
    /\ Searched
    /\ Walkable(Grid, query.start)
    /\ query.options.allowTargetFallback
    /\ ~Walkable(Grid, query.goal)
    /\ NoCellInRadius
    /\ NothingFound

(***************************************************************************)
(* Calls on one NavigationGrid                                             *)
(***************************************************************************)
GridPositions == { P(0, 0), P(1, 0) }
\* the terrain costs handed to setTile: -1, 0, 2.5, Infinity, NaN
RawCosts == { Fin(0 - CostOne), Fin(0), Fin(25), PosInf, NaN }
\* the tiles handed to setTile: every cost on the first position
TileChoices ==
    { FloorTile(P(0, 0), TRUE, cost) : cost \in RawCosts }
    \cup { FloorTile(pos, FALSE, Fin(CostOne)) : pos \in GridPositions }
    \cup { FloorTile(P(1, 0), TRUE, Fin(CostOne)) }
\* the obstacles handed to setObstacle: a wall on either position, a door on
\* the first, a body on the second
ObstacleChoices ==
    { [id |-> "wall_1", type |-> "wall", pos |-> pos, state |-> "n/a", blocksLos |-> TRUE] :
        pos \in GridPositions }
    \cup
    { [id |-> "door_1", type |-> "door", pos |-> P(0, 0), state |-> st, blocksLos |-> TRUE] :
        st \in {"open", "closed", "locked"} }
    \cup
    { [id |-> "actor_npc", type |-> "body", pos |-> P(1, 0), state |-> "n/a",
       blocksLos |-> FALSE] }
ObstacleIds == { "wall_1", "door_1", "actor_npc" }
\* the ids handed to setDoorState and tryOpenDoor
DoorIdChoices == { "door_1", "wall_1", "door_none" }
IgnoreChoices == { Undefined, "actor_npc", "actor_player" }
\* DoorOpenContext; "undefined" and NoNumber stand for a field left out
DoorContexts ==
    [hasKey : {"true", "false", "undefined"},
     lockpickSkill : {NoNumber, Fin(59), Fin(60)}]

GridInit ==
    /\ tiles = EmptyMap
    /\ obstacles = EmptyMap
    /\ obstacleByPos = EmptyMap
    /\ occupiedByPos = EmptyMap
    /\ call = NoCall
    /\ query = NoQuery
    /\ navResult = NoResult
    /\ prevResult = NoResult
    /\ world = NoWorld
    /\ RendererConstructed
    /\ commands = 0
    /\ saved = NoSave
    /\ controller = NoController

SetTile(tile) ==
    /\ GridIs(setTile(Grid, tile))
    /\ call' = [op |-> "setTile", pos |-> tile.pos, cost |-> tile.terrainCost]
    /\ UNCHANGED << pathVars, coordVars, saved, controller >>

SetObstacle(obstacle) ==
    /\ GridIs(setObstacle(Grid, obstacle))
    /\ call' = [op |-> "setObstacle", id |-> obstacle.id]
    /\ UNCHANGED << pathVars, coordVars, saved, controller >>

RemoveObstacle(obstacleId) ==
    /\ GridIs(removeObstacle(Grid, obstacleId))
    /\ call' = [op |-> "removeObstacle", id |-> obstacleId]
    /\ UNCHANGED << pathVars, coordVars, saved, controller >>

SetDoorState(doorId, state) ==
    /\ GridIs(setDoorState(Grid, doorId, state).grid)
    /\ call' = [op |-> "setDoorState", id |-> doorId, state |-> state,
                ret |-> setDoorState(Grid, doorId, state).ret,
                was |-> getDoorState(Grid, doorId)]
    /\ UNCHANGED << pathVars, coordVars, saved, controller >>

TryOpenDoor(doorId, context) ==
    /\ GridIs(tryOpenDoor(Grid, doorId, context).grid)
    /\ call' = [op |-> "tryOpenDoor", id |-> doorId, context |-> context,
                ret |-> tryOpenDoor(Grid, doorId, context).ret,
                was |-> getDoorState(Grid, doorId)]
    /\ UNCHANGED << pathVars, coordVars, saved, controller >>

SetOccupied(pos, bodyId) ==
    /\ GridIs(setOccupied(Grid, pos, bodyId))
    /\ call' = [op |-> "setOccupied", pos |-> pos]
    /\ UNCHANGED << pathVars, coordVars, saved, controller >>

ClearOccupied(pos) ==
    /\ GridIs(clearOccupied(Grid, pos))
    /\ call' = [op |-> "clearOccupied", pos |-> pos]
    /\ UNCHANGED << pathVars, coordVars, saved, controller >>

IsWalkableCall(pos, ignoreBodyId) ==
    /\ call' = [op |-> "isWalkable", pos |-> pos, ignoreBodyId |-> ignoreBodyId,
                ret |-> isWalkable(Grid, pos, ignoreBodyId)]
    /\ UNCHANGED << gridVars, pathVars, coordVars, saved, controller >>

MovementCostCall(pos) ==
    /\ call' = [op |-> "movementCost", pos |-> pos, ret |-> movementCost(Grid, pos)]
    /\ UNCHANGED << gridVars, pathVars, coordVars, saved, controller >>

GridNext ==
    \/ \E tile \in TileChoices : SetTile(tile)
    \/ \E obstacle \in ObstacleChoices : SetObstacle(obstacle)
    \/ \E obstacleId \in ObstacleIds : RemoveObstacle(obstacleId)
    \/ \E doorId \in DoorIdChoices, state \in {"open", "closed", "locked"} :
          SetDoorState(doorId, state)
    \/ \E doorId \in DoorIdChoices, context \in DoorContexts : TryOpenDoor(doorId, context)
    \/ \E pos \in GridPositions : SetOccupied(pos, "actor_npc")
    \/ \E pos \in GridPositions : ClearOccupied(pos)
    \/ \E pos \in GridPositions, ignoreBodyId \in IgnoreChoices :
          IsWalkableCall(pos, ignoreBodyId)
    \/ \E pos \in GridPositions : MovementCostCall(pos)

SpecGrid == GridInit /\ [][GridNext]_vars

(***************************************************************************)
(* C7  isWalkable(pos, {ignoreBodyId}) is true exactly when a walkable     *)
(* tile exists at pos, no wall is at pos, any door at pos is open, any     *)
(* body obstacle at pos has the id ignoreBodyId, and any occupancy entry   *)
(* at pos has the owner ignoreBodyId.                                      *)
(***************************************************************************)
\* no two obstacle records of the grid have the same position
OnePerPosition(g) ==
    \A a, b \in DOMAIN g.obstacles : g.obstacles[a].pos = g.obstacles[b].pos => a = b

\* stated of the grids that hold at most one obstacle on a position, where
\* what is at a position is beyond doubt
C7_IsWalkableExact ==
    call.op = "isWalkable" /\ OnePerPosition(Grid) =>
        call.ret = CellFree(Grid, call.pos, call.ignoreBodyId)

(***************************************************************************)
(* C8  tryOpenDoor(doorId, ctx): false and nothing changed for a missing   *)
(* id or an obstacle that is no door; false and still locked for a locked  *)
(* door without key and with lockpickSkill absent or below 60; true and    *)
(* open for a locked door with key or lockpickSkill of 60 or more; true    *)
(* and open for a closed door; true and still open for an open door.       *)
(***************************************************************************)
TryOpenDoorStep ==
    LET id == call'.id
        ctx == call'.context
        isDoor == id \in DOMAIN obstacles /\ obstacles[id].type = "door"
        keyed == ctx.hasKey = "true"
        skilled == ctx.lockpickSkill.kind = "fin" /\ ctx.lockpickSkill.v >= 60
        opened ==
            /\ call'.ret
            /\ obstacles' = [obstacles EXCEPT ![id].state = "open"]
            /\ UNCHANGED << tiles, obstacleByPos, occupiedByPos >>
    IN  /\ ~isDoor => ~call'.ret /\ UNCHANGED gridVars
        /\ isDoor /\ obstacles[id].state = "locked" /\ ~keyed /\ ~skilled =>
              ~call'.ret /\ UNCHANGED gridVars
        /\ isDoor /\ obstacles[id].state = "locked" /\ (keyed \/ skilled) => opened
        /\ isDoor /\ obstacles[id].state = "closed" => opened
        /\ isDoor /\ obstacles[id].state = "open" => call'.ret /\ UNCHANGED gridVars

C8_TryOpenDoor == [][call'.op = "tryOpenDoor" => TryOpenDoorStep]_vars

\* a locked door opened without key by a lockpickSkill of exactly 60
C8_Witness ==
    /\ call.op = "tryOpenDoor"
    /\ call.was = "locked"
    /\ call.context.hasKey # "true"
    /\ call.context.lockpickSkill = Fin(60)
    /\ call.ret
    /\ obstacles[call.id].state = "open"

(***************************************************************************)
(* C9  movementCost(pos) is the stored terrain cost of the tile when pos   *)
(* is walkable, and +Infinity when the tile is absent or the position is   *)
(* blocked by a wall, a door that is not open, a body or an occupancy      *)
(* entry; every stored terrain cost is finite and positive.  Stated of the  *)
(* grids that hold at most one obstacle on a position.                     *)
(***************************************************************************)
TileAt(g, pos) == \E k \in DOMAIN g.tiles : g.tiles[k].pos = pos

C9_MovementCost ==
    /\ \A k \in DOMAIN tiles : tiles[k].terrainCost > 0
    /\ call.op = "movementCost" /\ OnePerPosition(Grid) =>
          /\ Walkable(Grid, call.pos) =>
                call.ret = Fin(tiles[posKey(call.pos)].terrainCost)
          /\ \/ ~TileAt(Grid, call.pos)
             \/ WallAt(Grid, call.pos)
             \/ ShutDoorAt(Grid, call.pos)
             \/ BodyAt(Grid, call.pos, Undefined)
             \/ OccupantAt(Grid, call.pos, Undefined)
             => call.ret = PosInf


(***************************************************************************)
(* RenderingScene: the world and its frame snapshot                        *)
(*                                                                         *)
(* world = [mapSize, tiles, entities]; a tile is [grid, walkable]; an      *)
(* entity is [id, kind, obstacleType, grid, doorState, selectable], with   *)
(* "none" for an obstacleType or doorState that is not set.                *)
(***************************************************************************)
Min2(a, b) == IF a <= b THEN a ELSE b

\* entities.find((e) => e.id === id): its index, 0 when there is none
findEntity(entities, id) ==
    IF \E i \in 1..Len(entities) : entities[i].id = id
    THEN CHOOSE i \in 1..Len(entities) :
            entities[i].id = id /\ \A j \in 1..(i - 1) : entities[j].id # id
    ELSE 0

getFrameSnapshot(w, frameMs) ==
    [allTiles |-> w.tiles, entities |-> w.entities, frameMs |-> frameMs]

updateEntityGrid(w, entityId, tile) ==
    LET i == findEntity(w.entities, entityId)
        nextX == Max2(0, Min2(w.mapSize.width - 1, tile.x))
        nextY == Max2(0, Min2(w.mapSize.height - 1, tile.y))
    IN  IF i = 0 THEN [world |-> w, ret |-> FALSE]
        ELSE [world |-> [w EXCEPT !.entities[i].grid = P(nextX, nextY)], ret |-> TRUE]

setEntityDoorState(w, entityId, state) ==
    LET i == findEntity(w.entities, entityId)
    IN  IF i = 0 THEN [world |-> w, ret |-> FALSE]
        ELSE IF w.entities[i].obstacleType # "door" THEN [world |-> w, ret |-> FALSE]
        ELSE [world |-> [w EXCEPT !.entities[i].doorState = state], ret |-> TRUE]

(***************************************************************************)
(* PixiRenderer: the movement coordinator                                  *)
(*                                                                         *)
(* The operators take and return the renderer's fields, with the scene's   *)
(* world, as one record s.                                                 *)
(***************************************************************************)
PlayerId == "actor_player"
NpcId == "actor_raider_01"
moveStepMs == 120
maxRepathAttempts == 3
npcMoveStepMs == 260
npcPatrolPath == << P(10, 10), P(11, 10), P(12, 10), P(11, 10) >>

\* the options of every search the renderer makes for a move
MoveOptions(allowTargetFallback) ==
    [allowDiagonal |-> TRUE, preventCornerCutting |-> TRUE,
     allowTargetFallback |-> allowTargetFallback,
     maxFallbackRadius |-> 8, maxIterations |-> 6000]

\* the cells a reservation key can name
KeyCells == { P(x, y) : x \in 0..15, y \in 0..15 }
\* pos.split(",").map((v) => Number(v))
parseKey(key) == CHOOSE pos \in KeyCells : posKey(pos) = key

RECURSIVE gridWithTiles(_, _, _)
gridWithTiles(g, allTiles, i) ==
    IF i > Len(allTiles) THEN g
    ELSE gridWithTiles(
           setTile(g, [pos |-> allTiles[i].grid, walkable |-> allTiles[i].walkable,
                       blocksLos |-> FALSE, terrainCost |-> Fin(CostOne)]),
           allTiles, i + 1)

RECURSIVE gridWithEntities(_, _, _, _)
gridWithEntities(g, entities, i, movingBodyId) ==
    IF i > Len(entities) THEN g
    ELSE
      LET entity == entities[i]
          g1 ==
            IF entity.kind = "prop"
            THEN IF entity.obstacleType = "door"
                 THEN setObstacle(g, [id |-> "prop_door_" \o entity.id, type |-> "door",
                                      pos |-> entity.grid,
                                      state |-> IF entity.doorState = "open" THEN "open"
                                                ELSE IF entity.doorState = "locked"
                                                     THEN "locked" ELSE "closed",
                                      blocksLos |-> TRUE])
                 ELSE IF entity.obstacleType = "wall"
                 THEN setObstacle(g, [id |-> "prop_wall_" \o entity.id, type |-> "wall",
                                      pos |-> entity.grid, state |-> "n/a",
                                      blocksLos |-> TRUE])
                 ELSE g
            ELSE IF entity.kind = "actor" /\ entity.id # movingBodyId
                 THEN setOccupied(g, entity.grid, entity.id)
                 ELSE g
      IN  gridWithEntities(g1, entities, i + 1, movingBodyId)

RECURSIVE gridWithReserved(_, _, _, _)
gridWithReserved(g, reserved, keys, movingBodyId) ==
    IF keys = {} THEN g
    ELSE LET key == CHOOSE k \in keys : TRUE
             g1 == IF reserved[key] = movingBodyId THEN g
                   ELSE setOccupied(g, parseKey(key), reserved[key])
         IN  gridWithReserved(g1, reserved, keys \ {key}, movingBodyId)

buildNavigationGrid(snapshot, reserved, movingBodyId) ==
    gridWithReserved(
      gridWithEntities(gridWithTiles(EmptyGrid, snapshot.allTiles, 1),
                       snapshot.entities, 1, movingBodyId),
      reserved, DOMAIN reserved, movingBodyId)

\* isPlayerMoving that never sees a session
isPlayerMovingNever(s) == FALSE
isPlayerMoving(s) == Len(s.playerPath) > 1 /\ s.playerPathIndex < Len(s.playerPath)

\* tryPlanPlayerMovement that installs whatever path the search returned
planWithAnyPath(s, result, statusOverride) ==
    [s |-> [s EXCEPT !.playerPath = result.path,
                     !.playerPathIndex = 1,
                     !.playerTarget = Null,
                     !.movementStatus = "blocked"],
     ret |-> Len(result.path) > 1]
\* tryPlanPlayerMovement that reserves the actor's tile when the search fails
planWithReserving(s, result, statusOverride) ==
    [s |-> [s EXCEPT !.movementStatus = "blocked",
                     !.reservedTiles = MapSet(@, "0,0", "actor_player"),
                     !.events = Append(@, [type |-> "blocked", reason |-> "unreachable",
                                           reserved |-> MapSet(s.reservedTiles, "0,0",
                                                               "actor_player")])],
     ret |-> FALSE]
\* the rest of tryPlanPlayerMovement, once the search has a result
planWith(s, result, statusOverride) ==
    IF Len(result.path) <= 1
    THEN [s |-> [s EXCEPT !.movementStatus = "blocked",
                          !.events = Append(@, [type |-> "blocked",
                                                reason |-> "unreachable",
                                                reserved |-> s.reservedTiles])],
          ret |-> FALSE]
    ELSE [s |-> [s EXCEPT !.playerPath = result.path,
                          !.playerPathIndex = 1,
                          !.playerTarget = result.path[Len(result.path)],
                          !.activeDestination = result.path[Len(result.path)],
                          !.moveAccumulatorMs = 0,
                          !.repathAttempts = 0,
                          !.movementStatus =
                              IF statusOverride # Undefined THEN statusOverride
                              ELSE IF result.usedFallback THEN "fallback-path"
                              ELSE "moving"],
          ret |-> TRUE]

\* statusOverride is options.movementStatus, Undefined when left out
tryPlanPlayerMovement(s, targetTile, snapshot, allowTargetFallback, statusOverride) ==
    LET pi == findEntity(snapshot.entities, PlayerId)
    IN  IF pi = 0 THEN [s |-> s, ret |-> FALSE]
        ELSE planWith(s,
               findNavigationPath(
                 snapshot.entities[pi].grid, targetTile,
                 buildNavigationGrid(snapshot, s.reservedTiles, PlayerId),
                 MoveOptions(allowTargetFallback)),
               statusOverride)

\* tryRepath that gives up whatever the search found
repathWithNever(s1, result) == [s |-> s1, ret |-> FALSE]
\* tryRepath whose event carries the count from before the attempt
repathWithStaleCount(s1, result) ==
    IF Len(result.path) <= 1 THEN [s |-> s1, ret |-> FALSE]
    ELSE [s |-> [s1 EXCEPT !.playerPath = result.path,
                           !.playerPathIndex = 1,
                           !.movementStatus = "repathing",
                           !.events = Append(@,
                               [type |-> "repath_started",
                                attempts |-> s1.repathAttempts - 1,
                                toGrid |-> result.path[Len(result.path)],
                                fromGrid |-> result.path[1],
                                target |-> s1.playerTarget,
                                reserved |-> s1.reservedTiles,
                                at |-> s1.world.entities[
                                         findEntity(s1.world.entities, PlayerId)].grid])],
          ret |-> TRUE]
\* the rest of tryRepath, once the search has a result; s1 has the attempt
\* counted
repathWith(s1, result) ==
    IF Len(result.path) <= 1 THEN [s |-> s1, ret |-> FALSE]
    ELSE [s |-> [s1 EXCEPT !.playerPath = result.path,
                           !.playerPathIndex = 1,
                           !.movementStatus = "repathing",
                           !.events = Append(@,
                               [type |-> "repath_started",
                                attempts |-> s1.repathAttempts,
                                toGrid |-> result.path[Len(result.path)],
                                fromGrid |-> result.path[1],
                                target |-> s1.playerTarget,
                                reserved |-> s1.reservedTiles,
                                at |-> s1.world.entities[
                                         findEntity(s1.world.entities, PlayerId)].grid])],
          ret |-> TRUE]

\* tryRepath without the budget of attempts
tryRepathUnbounded(s, snapshot, navGrid) ==
    LET pi == findEntity(snapshot.entities, PlayerId)
    IN  IF s.playerTarget = Null THEN [s |-> s, ret |-> FALSE]
        ELSE IF pi = 0 THEN [s |-> s, ret |-> FALSE]
        ELSE repathWith([s EXCEPT !.repathAttempts = @ + 1],
                        findNavigationPath(snapshot.entities[pi].grid, s.playerTarget,
                                           navGrid, MoveOptions(TRUE)))
tryRepath(s, snapshot, navGrid) ==
    LET pi == findEntity(snapshot.entities, PlayerId)
    IN  IF s.playerTarget = Null \/ s.repathAttempts >= maxRepathAttempts
        THEN [s |-> s, ret |-> FALSE]
        ELSE IF pi = 0 THEN [s |-> s, ret |-> FALSE]
        ELSE repathWith([s EXCEPT !.repathAttempts = @ + 1],
                        findNavigationPath(snapshot.entities[pi].grid, s.playerTarget,
                                           navGrid, MoveOptions(TRUE)))

debugExportRuntimeState(s) ==
    [npcPatrolIndex |-> s.npcPatrolIndex,
     queuedTarget |-> s.queuedTarget,
     activeDestination |-> s.activeDestination,
     playerTarget |-> s.playerTarget,
     moving |-> isPlayerMoving(s),
     \* ?? null: the empty string stands for the null
     pendingDoorId |-> IF s.pendingDoorInteraction = Null THEN Undefined
                       ELSE s.pendingDoorInteraction.doorId]

\* state is a whole RendererRuntimeState (a record that was exported), so
\* typeof state.npcPatrolIndex === "number" holds and the index is whole
debugImportRuntimeState(s, state) ==
    LET max == Max2(1, Len(npcPatrolPath))
    IN  [s EXCEPT !.npcPatrolIndex = ((state.npcPatrolIndex % max) + max) % max,
                  !.queuedTarget = state.queuedTarget,
                  !.activeDestination = state.activeDestination,
                  !.playerTarget = state.playerTarget,
                  !.pendingDoorInteraction =
                      IF state.pendingDoorId # Undefined
                      THEN [doorId |-> state.pendingDoorId, action |-> "open"]
                      ELSE Null]

\* cancelMovement that reports the status and clears nothing
cancelMovementStatusOnly(s, status) == [s EXCEPT !.movementStatus = status]
cancelMovement(s, status) ==
    [s EXCEPT !.playerPath = << >>,
              !.playerPathIndex = 0,
              !.playerTarget = Null,
              !.queuedTarget = Null,
              !.activeDestination = Null,
              !.movementStatus = status]


\* isAdjacent that takes every cell for a neighbour
isAdjacentAlways(a, b) == TRUE
isAdjacent(a, b) ==
    LET dx == Abs(a.x - b.x)
        dy == Abs(a.y - b.y)
    IN  dx <= 1 /\ dy <= 1 /\ (dx # 0 \/ dy # 0)

\* the offsets around a door, rows first
ApproachOffsets ==
    << P(0 - 1, 0 - 1), P(0, 0 - 1), P(1, 0 - 1), P(0 - 1, 0), P(1, 0),
       P(0 - 1, 1), P(0, 1), P(1, 1) >>

\* best after the candidate tile, whose path has pathLen cells, was looked
\* at; best is [tile, pathLen] or Null
betterApproach(best, tile, pathLen) ==
    IF pathLen <= 0 THEN best
    ELSE IF best = Null THEN [tile |-> tile, pathLen |-> pathLen]
    ELSE IF pathLen < best.pathLen THEN [tile |-> tile, pathLen |-> pathLen]
    ELSE best

\* the loop over candidates[i..]
RECURSIVE bestApproach(_, _, _, _, _)
bestApproach(candidates, i, best, playerGrid, navGrid) ==
    IF i > Len(candidates) THEN best
    ELSE bestApproach(
           candidates, i + 1,
           betterApproach(
             best, candidates[i],
             Len(findNavigationPath(playerGrid, candidates[i], navGrid,
                   [allowDiagonal |-> TRUE, preventCornerCutting |-> TRUE,
                    allowTargetFallback |-> FALSE, maxFallbackRadius |-> 0,
                    maxIterations |-> 6000]).path)),
           playerGrid, navGrid)

\* best?.tile ?? null
tileOf(best) == IF best = Null THEN Null ELSE best.tile

\* the walkable cells around the door, rows first
approachCandidates(navGrid, doorGrid) ==
    SelectSeq([i \in 1..Len(ApproachOffsets) |->
                 P(doorGrid.x + ApproachOffsets[i].x, doorGrid.y + ApproachOffsets[i].y)],
              LAMBDA pos : isWalkable(navGrid, pos, PlayerId))

\* the approach tile, Null when there is none
findDoorApproachTile(snapshot, reserved, playerGrid, doorGrid) ==
    LET navGrid == buildNavigationGrid(snapshot, reserved, PlayerId)
    IN  IF Len(approachCandidates(navGrid, doorGrid)) = 0 THEN Null
        ELSE tileOf(bestApproach(approachCandidates(navGrid, doorGrid), 1, Null,
                                 playerGrid, navGrid))

\* applyDoorState(doorId, nextState): nextState is "open" or "closed"
applyDoorState(s, doorId, nextState) ==
    LET changed == setEntityDoorState(s.world, doorId, nextState)
    IN  IF ~changed.ret THEN s
        ELSE [s EXCEPT !.world = changed.world,
                       !.movementStatus =
                           IF nextState = "open" THEN "door-opened" ELSE "door-closed",
                       !.events = Append(@,
                           [type |-> "door", sourceId |-> doorId, doorState |-> nextState,
                            reserved |-> s.reservedTiles,
                            at |-> s.world.entities[
                                     findEntity(s.world.entities, PlayerId)].grid])]

\* executeDoorActionAtRange that opens a locked door for a key or a lockpick
executeDoorActionOpens(s, door, action) ==
    IF door.doorState = "locked" /\ action \in { "key", "lockpick" }
    THEN [s EXCEPT !.world = setEntityDoorState(s.world, door.id, "open").world,
                   !.movementStatus = "door-opened"]
    ELSE s
\* executeDoorActionAtRange whose open and close do not look at the lock
executeDoorActionForces(s, door, action) ==
    IF action = "open" THEN applyDoorState(s, door.id, "open")
    ELSE IF action = "close" THEN applyDoorState(s, door.id, "closed")
    ELSE s
\* door is the entity of the snapshot
executeDoorActionAtRange(s, door, action) ==
    IF action = "open"
    THEN IF door.doorState = "locked" THEN [s EXCEPT !.movementStatus = "door-locked"]
         ELSE applyDoorState(s, door.id, "open")
    ELSE IF action = "close"
    THEN IF door.doorState = "locked" THEN [s EXCEPT !.movementStatus = "door-locked"]
         ELSE applyDoorState(s, door.id, "closed")
    ELSE IF door.doorState # "locked" THEN [s EXCEPT !.movementStatus = "door-not-locked"]
    ELSE LET changed == setEntityDoorState(s.world, door.id, "closed")
         IN  IF ~changed.ret THEN s
             ELSE [s EXCEPT !.world = changed.world,
                            !.movementStatus =
                                IF action = "key" THEN "door-unlocked-key"
                                ELSE "door-unlocked-lockpick",
                            !.events = Append(@,
                                [type |-> "door", sourceId |-> door.id,
                                 doorState |-> "closed", unlockedBy |-> action,
                                 reserved |-> s.reservedTiles,
                                 at |-> s.world.entities[
                                          findEntity(s.world.entities, PlayerId)].grid])]

\* finishPendingDoorInteraction that leaves the deferred action where it is
finishPendingNever(s, snapshot) == s
finishPendingDoorInteraction(s, snapshot) ==
    LET pending == s.pendingDoorInteraction
        di == findEntity(snapshot.entities, pending.doorId)
        pi == findEntity(snapshot.entities, PlayerId)
        s1 == [s EXCEPT !.pendingDoorInteraction = Null]
    IN  IF pending = Null THEN s
        ELSE IF di = 0 \/ pi = 0 THEN s1
        ELSE IF snapshot.entities[di].obstacleType # "door" THEN s1
        ELSE IF ~isAdjacent(snapshot.entities[pi].grid, snapshot.entities[di].grid)
        THEN [s1 EXCEPT !.movementStatus = "door-unreachable"]
        ELSE executeDoorActionAtRange(s1, snapshot.entities[di], pending.action)

\* the end of tryExecuteDoorActionWithApproach: planned is what
\* tryPlanPlayerMovement returned
approachPlanned(planned) ==
    IF ~planned.ret
    THEN [planned.s EXCEPT !.pendingDoorInteraction = Null,
                           !.movementStatus = "door-unreachable"]
    ELSE planned.s

\* the approach that defers the action even when there is no approach tile
approachViaDefersAnyway(s, door, action, snapshot, approachTile) ==
    IF approachTile = Null
    THEN [s EXCEPT !.pendingDoorInteraction = [doorId |-> door.id, action |-> action],
                   !.movementStatus = "door-unreachable"]
    ELSE approachPlanned(
           tryPlanPlayerMovement(
             [s EXCEPT !.pendingDoorInteraction = [doorId |-> door.id, action |-> action],
                       !.queuedTarget = Null],
             approachTile, snapshot, FALSE, "moving-to-door"))
\* tryExecuteDoorActionWithApproach for a door out of reach, once the
\* approach tile was looked for
approachVia(s, door, action, snapshot, approachTile) ==
    IF approachTile = Null
    THEN [s EXCEPT !.pendingDoorInteraction = Null, !.movementStatus = "door-unreachable"]
    ELSE approachPlanned(
           tryPlanPlayerMovement(
             [s EXCEPT !.pendingDoorInteraction = [doorId |-> door.id, action |-> action],
                       !.queuedTarget = Null],
             approachTile, snapshot, FALSE, "moving-to-door"))

tryExecuteDoorActionWithApproach(s, door, action, snapshot) ==
    LET pi == findEntity(snapshot.entities, PlayerId)
    IN  IF pi = 0 THEN s
        ELSE IF isAdjacent(snapshot.entities[pi].grid, door.grid)
        THEN executeDoorActionAtRange([s EXCEPT !.pendingDoorInteraction = Null], door, action)
        ELSE approachVia(s, door, action, snapshot,
                         findDoorApproachTile(snapshot, s.reservedTiles,
                                              snapshot.entities[pi].grid, door.grid))

\* the status with which tryPerformDoorAction turns the action down,
\* Undefined when it goes on
doorActionRefused(entity, action) ==
    IF action = "key" \/ action = "lockpick"
    THEN IF entity.doorState # "locked" THEN "door-not-locked" ELSE Undefined
    ELSE IF action = "open"
    THEN IF entity.doorState = "locked" THEN "door-locked"
         ELSE IF entity.doorState = "open" THEN "door-already-open"
         ELSE Undefined
    ELSE IF entity.doorState = "locked" THEN "door-locked"
    ELSE IF entity.doorState = "closed" THEN "door-already-closed"
    ELSE Undefined

\* action is one of "open", "close", "key", "lockpick"
tryPerformDoorAction(s, entityId, action, snapshot) ==
    LET i == findEntity(snapshot.entities, entityId)
    IN  IF i = 0 THEN s
        ELSE IF snapshot.entities[i].obstacleType # "door" THEN s
        ELSE IF doorActionRefused(snapshot.entities[i], action) # Undefined
        THEN [s EXCEPT !.movementStatus = doorActionRefused(snapshot.entities[i], action)]
        ELSE tryExecuteDoorActionWithApproach(s, snapshot.entities[i], action, snapshot)


\* what the world holds at pos, read off its tiles and entities: a walkable
\* tile, no wall, no door that is not open, no actor other than moverId
WorldCellFree(w, pos, moverId) ==
    /\ \E i \in 1..Len(w.tiles) : w.tiles[i].grid = pos /\ w.tiles[i].walkable
    /\ ~\E i \in 1..Len(w.entities) :
          /\ w.entities[i].grid = pos
          /\ \/ w.entities[i].kind = "prop" /\ w.entities[i].obstacleType = "wall"
             \/ /\ w.entities[i].kind = "prop"
                /\ w.entities[i].obstacleType = "door"
                /\ w.entities[i].doorState # "open"
             \/ w.entities[i].kind = "actor" /\ w.entities[i].id # moverId
\* pos is reserved by an actor other than moverId
ReservedByOther(reserved, pos, moverId) ==
    \E k \in DOMAIN reserved : k = posKey(pos) /\ reserved[k] # moverId

\* the test that turns a step into a blocked one, with the reservation test
\* alone
stepBlockedReservedOnly(nextWalkable, reservedBlocked) == reservedBlocked
\* if (!nextWalkable || reservedBlocked)
stepBlocked(nextWalkable, reservedBlocked) == ~nextWalkable \/ reservedBlocked

stopMovement(s, status) ==
    [s EXCEPT !.playerPath = << >>,
              !.playerPathIndex = 0,
              !.playerTarget = Null,
              !.activeDestination = Null,
              !.movementStatus = status]

\* the while loop of advancePlayerMovement; snapshot is the one taken when
\* the call began
RECURSIVE advanceLoop(_, _)

\* a blocked step whose failed re-path leaves the session as it is
afterRepathKeepsSession(repathed, snapshot) ==
    IF ~repathed.ret THEN repathed.s
    ELSE advanceLoop(repathed.s, snapshot)
\* a blocked step, once tryRepath has answered
afterRepath(repathed, snapshot) ==
    IF ~repathed.ret
    THEN stopMovement(
           [repathed.s EXCEPT !.events = Append(@,
               [type |-> "repath_failed",
                attempts |-> repathed.s.repathAttempts,
                target |-> repathed.s.playerTarget,
                reserved |-> repathed.s.reservedTiles,
                fromGrid |-> snapshot.entities[
                               findEntity(snapshot.entities, PlayerId)].grid])],
           "repath-failed")
    ELSE advanceLoop(repathed.s, snapshot)

\* an arrival that drops the queued target
planQueuedDropped(s, frameMs) == [s EXCEPT !.queuedTarget = Null, !.activeDestination = Null]
\* the end of an arrival: the queued target is planned on a new snapshot
planQueued(s, frameMs) ==
    IF s.queuedTarget # Null
    THEN tryPlanPlayerMovement([s EXCEPT !.queuedTarget = Null], s.queuedTarget,
                               getFrameSnapshot(s.world, frameMs), TRUE, Undefined).s
    ELSE [s EXCEPT !.activeDestination = Null]

\* commitStep that never releases the reservation
commitStepKeepsReservation(s2, nextTile, moved, snapshot) ==
    LET s3 == [s2 EXCEPT !.world = moved.world,
                         !.stepLog = Append(@,
                             [to |-> nextTile,
                              free |-> WorldCellFree(s2.world, nextTile, PlayerId),
                              reserved |-> ReservedByOther(s2.reservedTiles, nextTile,
                                                           PlayerId),
                              last |-> s2.playerPathIndex + 1 >= Len(s2.playerPath),
                              queued |-> s2.queuedTarget,
                              pending |-> s2.pendingDoorInteraction]),
                         !.playerPathIndex = @ + 1]
        arrived == [s3 EXCEPT !.playerPath = << >>,
                              !.playerPathIndex = 0,
                              !.playerTarget = Null,
                              !.movementStatus = "arrived",
                              !.events = Append(@,
                                  [type |-> "arrived", at |-> nextTile,
                                   reserved |-> s3.reservedTiles,
                                   queued |-> s3.queuedTarget,
                                   pending |-> s3.pendingDoorInteraction])]
    IN  IF ~moved.ret THEN stopMovement(s2, "blocked")
        ELSE IF s3.playerPathIndex >= Len(s3.playerPath)
        THEN advanceLoop(
               planQueued(
                 finishPendingDoorInteraction(
                   arrived, getFrameSnapshot(arrived.world, snapshot.frameMs)),
                 snapshot.frameMs),
               snapshot)
        ELSE advanceLoop(s3, snapshot)
\* a step that is not blocked: s2 holds the reservation of nextTile and moved
\* is what updateEntityGrid returned
commitStep(s2, nextTile, moved, snapshot) ==
    LET key == posKey(nextTile)
        s3 == [s2 EXCEPT !.world = moved.world,
                         !.stepLog = Append(@,
                             [to |-> nextTile,
                              free |-> WorldCellFree(s2.world, nextTile, PlayerId),
                              reserved |-> ReservedByOther(s2.reservedTiles, nextTile,
                                                           PlayerId),
                              last |-> s2.playerPathIndex + 1 >= Len(s2.playerPath),
                              queued |-> s2.queuedTarget,
                              pending |-> s2.pendingDoorInteraction]),
                         !.reservedTiles = MapDelete(@, key),
                         !.playerPathIndex = @ + 1]
        arrived == [s3 EXCEPT !.playerPath = << >>,
                              !.playerPathIndex = 0,
                              !.playerTarget = Null,
                              !.movementStatus = "arrived",
                              !.events = Append(@,
                                  [type |-> "arrived", at |-> nextTile,
                                   reserved |-> s3.reservedTiles,
                                   queued |-> s3.queuedTarget,
                                   pending |-> s3.pendingDoorInteraction])]
    IN  IF ~moved.ret
        THEN [stopMovement(s2, "blocked") EXCEPT !.reservedTiles = MapDelete(@, key)]
        ELSE IF s3.playerPathIndex >= Len(s3.playerPath)
        THEN advanceLoop(
               planQueued(
                 finishPendingDoorInteraction(
                   arrived, getFrameSnapshot(arrived.world, snapshot.frameMs)),
                 snapshot.frameMs),
               snapshot)
        ELSE advanceLoop(s3, snapshot)

advanceLoop(s, snapshot) ==
    IF ~(s.moveAccumulatorMs >= moveStepMs /\ s.playerPathIndex < Len(s.playerPath))
    THEN s
    ELSE
      LET s1 == [s EXCEPT !.moveAccumulatorMs = @ - moveStepMs]
          nextTile == s.playerPath[s.playerPathIndex + 1]
          reservedBy == MapGet(s.reservedTiles, posKey(nextTile))
      IN  IF stepBlocked(
               isWalkable(buildNavigationGrid(snapshot, s.reservedTiles, PlayerId),
                          nextTile, PlayerId),
               reservedBy # Undefined /\ reservedBy # PlayerId)
          THEN afterRepath(
                 tryRepath([s1 EXCEPT !.events = Append(@,
                               [type |-> "blocked",
                                reason |-> IF reservedBy # Undefined /\ reservedBy # PlayerId
                                           THEN "reserved" ELSE "occupied_or_closed",
                                blockedTile |-> nextTile,
                                reserved |-> s1.reservedTiles,
                                attempts |-> s1.repathAttempts])],
                           snapshot,
                           buildNavigationGrid(snapshot, s.reservedTiles, PlayerId)),
                 snapshot)
          ELSE commitStep(
                 [s1 EXCEPT !.reservedTiles = MapSet(@, posKey(nextTile), PlayerId)],
                 nextTile, updateEntityGrid(s.world, PlayerId, nextTile), snapshot)

advancePlayerMovement(s, frameMs) ==
    LET snapshot == getFrameSnapshot(s.world, frameMs)
    IN  IF Len(s.playerPath) <= 1 \/ s.playerPathIndex >= Len(s.playerPath) THEN s
        ELSE advanceLoop([s EXCEPT !.moveAccumulatorMs = @ + frameMs], snapshot)

advanceNpcPatrol(s, frameMs) ==
    LET snapshot == getFrameSnapshot(s.world, frameMs)
        ni == findEntity(snapshot.entities, NpcId)
        s1 == [s EXCEPT !.npcMoveAccumulatorMs = @ + frameMs]
        s2 == [s1 EXCEPT !.npcMoveAccumulatorMs = 0,
                         !.npcPatrolIndex = (@ + 1) % Len(npcPatrolPath)]
        next == npcPatrolPath[s2.npcPatrolIndex + 1]
        navGrid == buildNavigationGrid(snapshot, s.reservedTiles, NpcId)
        moved == updateEntityGrid(s2.world, NpcId, next)
    IN  IF Len(npcPatrolPath) < 2 THEN s
        ELSE IF ni = 0 THEN s
        ELSE IF s1.npcMoveAccumulatorMs < npcMoveStepMs THEN s1
        ELSE IF ~isWalkable(navGrid, next, NpcId) THEN s2
        ELSE IF ~moved.ret THEN s2
        ELSE [s2 EXCEPT !.world = moved.world]

\* RenderingScene.tick: diagnostics.frameMs of a frame deltaMs long (whole
\* milliseconds)
tickFrameMs(deltaMs) == Max2(deltaMs, 0)

\* render(): advanceNpcPatrol, then advancePlayerMovement
render(s, frameMs) == advancePlayerMovement(advanceNpcPatrol(s, frameMs), frameMs)


\* pickEntityAtTile: of the selectable entities on the tile an actor before
\* a prop; the index of the entity, 0 when the tile itself is picked
pickEntityAtTile(entities, tile) ==
    LET actorsAt == { i \in 1..Len(entities) :
                        /\ entities[i].selectable
                        /\ entities[i].grid = tile
                        /\ entities[i].kind = "actor" }
        propsAt == { i \in 1..Len(entities) :
                       /\ entities[i].selectable
                       /\ entities[i].grid = tile
                       /\ entities[i].kind = "prop" }
    IN  IF actorsAt # {} THEN CHOOSE i \in actorsAt : TRUE
        ELSE IF propsAt # {} THEN CHOOSE i \in propsAt : TRUE
        ELSE 0

\* onPointerClick on a pointer that is over the tile
onPointerClick(s, tile, snapshot) ==
    LET hit == pickEntityAtTile(snapshot.entities, tile)
    IN  IF hit # 0 /\ snapshot.entities[hit].obstacleType = "door" THEN s
        ELSE IF isPlayerMoving(s)
        THEN [s EXCEPT !.queuedTarget = tile, !.movementStatus = "queued"]
        ELSE tryPlanPlayerMovement(s, tile, snapshot, TRUE, Undefined).s

(***************************************************************************)
(* The renderer over a small world                                         *)
(***************************************************************************)
Self ==
    [world |-> world, playerPath |-> playerPath, playerPathIndex |-> playerPathIndex,
     playerTarget |-> playerTarget, queuedTarget |-> queuedTarget,
     activeDestination |-> activeDestination, moveAccumulatorMs |-> moveAccumulatorMs,
     repathAttempts |-> repathAttempts, reservedTiles |-> reservedTiles,
     npcPatrolIndex |-> npcPatrolIndex, npcMoveAccumulatorMs |-> npcMoveAccumulatorMs,
     pendingDoorInteraction |-> pendingDoorInteraction,
     movementStatus |-> movementStatus, stepLog |-> stepLog, events |-> events]

\* the renderer as a handler starts
Handling == [Self EXCEPT !.stepLog = << >>, !.events = << >>]

Become(next) ==
    \E s \in { next } :
       /\ world' = s.world
       /\ playerPath' = s.playerPath
       /\ playerPathIndex' = s.playerPathIndex
       /\ playerTarget' = s.playerTarget
       /\ queuedTarget' = s.queuedTarget
       /\ activeDestination' = s.activeDestination
       /\ moveAccumulatorMs' = s.moveAccumulatorMs
       /\ repathAttempts' = s.repathAttempts
       /\ reservedTiles' = s.reservedTiles
       /\ npcPatrolIndex' = s.npcPatrolIndex
       /\ npcMoveAccumulatorMs' = s.npcMoveAccumulatorMs
       /\ pendingDoorInteraction' = s.pendingDoorInteraction
       /\ movementStatus' = s.movementStatus
       /\ stepLog' = s.stepLog
       /\ events' = s.events

\* the room the patrol walks through, its door and the cell behind the door
WorldCells ==
    << P(10, 9), P(11, 9), P(12, 9), P(10, 10), P(11, 10), P(12, 10),
       P(10, 11), P(11, 11), P(12, 11), P(13, 10), P(14, 10) >>
WorldMapSize == [width |-> 16, height |-> 16]
DoorId == "door_1"
WallId == "wall_1"
DoorCellOfWorld == P(13, 10)
WallCellOfWorld == P(11, 11)
\* the commands of a run
MaxCommands == 2
NpcStart == P(11, 10)
PlayerStarts == { P(10, 11), P(14, 10) }
DoorStates == { "open", "closed", "locked" }
MoveTargets == { P(12, 11), P(14, 10), P(11, 10) }
DoorActionTargets == { DoorId, WallId }
DoorMenuActions == { "open", "close", "key", "lockpick" }
FrameDeltas == { 120, 240 }

Actor(id, grid) ==
    [id |-> id, kind |-> "actor", obstacleType |-> "none", grid |-> grid,
     doorState |-> "none", selectable |-> TRUE]
Prop(id, obstacleType, grid, doorState) ==
    [id |-> id, kind |-> "prop", obstacleType |-> obstacleType, grid |-> grid,
     doorState |-> doorState, selectable |-> obstacleType = "door"]

\* a world: the player, the patrolling npc, one door and one wall
WorldOf(playerStart, doorState) ==
    [mapSize |-> WorldMapSize,
     tiles |-> [i \in 1..Len(WorldCells) |-> [grid |-> WorldCells[i], walkable |-> TRUE]],
     entities |->
        << Actor(PlayerId, playerStart), Actor(NpcId, NpcStart),
           Prop(DoorId, "door", DoorCellOfWorld, doorState),
           Prop(WallId, "wall", WallCellOfWorld, "none") >>]

Init ==
    /\ tiles = EmptyMap
    /\ obstacles = EmptyMap
    /\ obstacleByPos = EmptyMap
    /\ occupiedByPos = EmptyMap
    /\ call = NoCall
    /\ query = NoQuery
    /\ navResult = NoResult
    /\ prevResult = NoResult
    /\ \E playerStart \in PlayerStarts, doorState \in DoorStates :
          world = WorldOf(playerStart, doorState)
    /\ RendererConstructed
    /\ commands = 0
    /\ saved = NoSave
    /\ controller = NoController

\* one frame of the loop: scene.tick(deltaMs), then renderer.render()
Frame(deltaMs) ==
    /\ Become(render(Handling, tickFrameMs(deltaMs)))
    /\ call' = [op |-> "render", deltaMs |-> deltaMs]
    /\ UNCHANGED << gridVars, pathVars, commands, saved, controller >>

DebugMoveToTile(tile) ==
    /\ commands < MaxCommands
    /\ commands' = commands + 1
    /\ Become(tryPlanPlayerMovement(Handling, tile, getFrameSnapshot(world, 0), TRUE,
                                    Undefined).s)
    /\ call' = [op |-> "debugMoveToTile", tile |-> tile]
    /\ UNCHANGED << gridVars, pathVars, saved, controller >>

PointerClick(tile) ==
    /\ commands < MaxCommands
    /\ commands' = commands + 1
    /\ Become(onPointerClick(Handling, tile, getFrameSnapshot(world, 0)))
    /\ call' = [op |-> "onPointerClick", tile |-> tile]
    /\ UNCHANGED << gridVars, pathVars, saved, controller >>

RightClick ==
    /\ commands < MaxCommands
    /\ commands' = commands + 1
    /\ Become(cancelMovement(Handling, "cancelled"))
    /\ call' = [op |-> "onRightClick"]
    /\ UNCHANGED << gridVars, pathVars, saved, controller >>

PerformDoorAction(entityId, action) ==
    /\ commands < MaxCommands
    /\ commands' = commands + 1
    /\ Become(tryPerformDoorAction(Handling, entityId, action, getFrameSnapshot(world, 0)))
    /\ call' = [op |-> "performDoorAction", entityId |-> entityId, action |-> action]
    /\ UNCHANGED << gridVars, pathVars, saved, controller >>

Next ==
    \/ \E deltaMs \in FrameDeltas : Frame(deltaMs)
    \/ \E tile \in MoveTargets : DebugMoveToTile(tile)
    \/ \E tile \in MoveTargets : PointerClick(tile)
    \/ RightClick
    \/ \E entityId \in DoorActionTargets, action \in DoorMenuActions :
          PerformDoorAction(entityId, action)

Spec == Init /\ [][Next]_vars


(***************************************************************************)
(* Claims about advancePlayerMovement                                      *)
(***************************************************************************)
\* C10: every step advancePlayerMovement commits goes to a cell that, when
\* the step is committed, is walkable for the mover (a walkable tile with no
\* wall, no closed or locked door and no other actor on it) and is not
\* reserved by another actor
C10_CommitOnlyFree ==
    \A i \in 1..Len(stepLog) : stepLog[i].free /\ ~stepLog[i].reserved

\* a step was committed in a call that met a blocked step and found another
\* path
C10_Witness ==
    /\ Len(stepLog) >= 1
    /\ movementStatus = "repathing"
    /\ repathAttempts >= 1


(***************************************************************************)
(* Claims about the two actors of a frame                                  *)
(***************************************************************************)
\* where the actor id stands in the world w
ActorGrid(w, id) == w.entities[findEntity(w.entities, id)].grid
\* the state of the door of the world w
DoorStateOf(w) == w.entities[findEntity(w.entities, DoorId)].doorState
DoorGridOf(w) == w.entities[findEntity(w.entities, DoorId)].grid

\* the step is a frame of deltaMs whose advanceNpcPatrol left the npc where
\* the frame ends with it
NpcStepKept(deltaMs) ==
    LET after == advanceNpcPatrol(Handling, tickFrameMs(deltaMs))
    IN  /\ npcMoveAccumulatorMs' = after.npcMoveAccumulatorMs
        /\ npcPatrolIndex' = after.npcPatrolIndex
        /\ ActorGrid(world', NpcId) = ActorGrid(after.world, NpcId)

\* C11: the player and the patrol npc, who start on different tiles, are
\* never on the same tile, whatever frames, move commands, cancels and door
\* actions are interleaved; and in every frame the npc ends where its own
\* advance put it: advancePlayerMovement never takes the npc's step back
C11_ActorsNeverShareTile ==
    /\ [](ActorGrid(world, PlayerId) # ActorGrid(world, NpcId))
    /\ [][call'.op = "render" => NpcStepKept(call'.deltaMs)]_vars

\* a run of one move command and a door that was open from the start, in
\* which a step of the player was blocked, so by the npc, and another path
\* was found
C11_Witness ==
    /\ commands = 1
    /\ DoorStateOf(world) = "open"
    /\ repathAttempts >= 1
    /\ movementStatus = "repathing"
    /\ Chebyshev(ActorGrid(world, PlayerId), ActorGrid(world, NpcId)) = 1


(***************************************************************************)
(* Claims about re-pathing                                                 *)
(***************************************************************************)
\* the events of the last handler that are of the given type
EventsOf(type) == { i \in 1..Len(events) : events[i].type = type }

\* C12: a re-path search triggered by a blocked step starts from the cell the
\* actor stands on at that moment, also when earlier steps were committed in
\* the same update call, and is directed at the session's target: the
\* replacement path begins on the actor's cell and ends on the target, or,
\* the target being blocked, on the cell the fallback chose for it
C12_RepathFromCurrentCell ==
    \A i \in EventsOf("repath_started") :
       /\ events[i].fromGrid = events[i].at
       /\ \/ events[i].toGrid = events[i].target
          \/ ~WorldCellFree(world, events[i].target, PlayerId)


\* the blocked events of steps (the blocked event of a command that found no
\* path carries the reason "unreachable")
BlockedSteps == { i \in EventsOf("blocked") : events[i].reason # "unreachable" }

\* C13: a session goes to repath-failed, and is torn down, only when its
\* budget of 3 re-path attempts is used up; a blocked step met while fewer
\* than 3 attempts were used is followed by a replacement path
C13_FailedOnlyWhenBudgetUsed ==
    /\ \A i \in EventsOf("repath_failed") : events[i].attempts >= maxRepathAttempts
    /\ \A i \in BlockedSteps :
          events[i].attempts < maxRepathAttempts =>
             i < Len(events) /\ events[i + 1].type = "repath_started"

\* the search tryRepath runs for the event e, over the world as it is
RepathSearch(e) ==
    findNavigationPath(e.fromGrid, e.target,
                       buildNavigationGrid(getFrameSnapshot(world, 0), reservedTiles,
                                           PlayerId),
                       MoveOptions(TRUE))

\* C13 as amended: repath-failed is dispatched only for a blocked step, and
\* only when the budget of 3 attempts is used up, the session has no target,
\* or the search from the cell tryRepath starts from finds no path of two
\* cells or more; the session is then torn down; a blocked step is followed
\* by a replacement path or by repath-failed
C13_FailedOnlyWithoutPath ==
    /\ \A i \in EventsOf("repath_failed") :
          /\ i - 1 \in BlockedSteps
          /\ i = Len(events)
          /\ movementStatus = "repath-failed"
          /\ playerPath = << >> /\ playerPathIndex = 0
          /\ playerTarget = Null /\ activeDestination = Null
          /\ \/ events[i - 1].attempts >= maxRepathAttempts
             \/ events[i].target = Null
             \/ Len(RepathSearch(events[i]).path) <= 1
    /\ \A i \in BlockedSteps :
          /\ i < Len(events)
          /\ events[i + 1].type \in { "repath_started", "repath_failed" }
          /\ events[i + 1].type = "repath_started" =>
                /\ events[i + 1].attempts = events[i].attempts + 1
                /\ events[i + 1].attempts <= maxRepathAttempts

\* a session was torn down by its first search that found no path
C13_Witness ==
    \E i \in EventsOf("repath_failed") :
       /\ events[i].attempts = 1
       /\ events[i].target # Null
       /\ Len(RepathSearch(events[i]).path) <= 1


(***************************************************************************)
(* Claims about commands                                                   *)
(***************************************************************************)
\* a session is under way: a path with cells left to walk
SessionUnderWay == Len(playerPath) > 1 /\ playerPathIndex < Len(playerPath)

\* the session (path, cursor, target) is left as it was
SessionKept ==
    /\ playerPath' = playerPath
    /\ playerPathIndex' = playerPathIndex
    /\ playerTarget' = playerTarget

\* C14: a move command that arrives while a session is moving or repathing
\* leaves path, cursor and target as they are and stores its tile as the one
\* queued target, whether it comes as a canvas click or as the programmatic
\* moveToTile command
C14_MoveCommandOnlyQueues ==
    [][SessionUnderWay /\ call'.op \in { "onPointerClick", "debugMoveToTile" } =>
          SessionKept /\ queuedTarget' = call'.tile]_vars

\* C14 as amended: a canvas click on a tile, while a session is moving or
\* repathing, leaves path, cursor and target as they are, stores the tile as
\* the one queued target and reports "queued"; the programmatic moveToTile
\* command does not queue: it plans at once, and either finds no path, reports
\* "blocked" and leaves session and queued target as they were, or replaces
\* the session by a path from the actor's cell, leaving the queued target as
\* it was
C14_ClickQueuesMoveToTileReplans ==
    [][SessionUnderWay =>
          /\ call'.op = "onPointerClick" =>
                /\ SessionKept
                /\ queuedTarget' = call'.tile
                /\ movementStatus' = "queued"
          /\ call'.op = "debugMoveToTile" =>
                /\ queuedTarget' = queuedTarget
                /\ \/ movementStatus' = "blocked" /\ SessionKept
                   \/ /\ movementStatus' \in { "moving", "fallback-path" }
                      /\ Len(playerPath') > 1
                      /\ playerPathIndex' = 1
                      /\ playerPath'[1] = ActorGrid(world, PlayerId)
                      /\ playerTarget' = Last(playerPath')
                      /\ repathAttempts' = 0]_vars

\* a click on a tile found a session under way and was queued
C14_Witness ==
    /\ call.op = "onPointerClick"
    /\ SessionUnderWay
    /\ movementStatus = "queued"
    /\ queuedTarget = call.tile
    /\ playerTarget # call.tile


(***************************************************************************)
(* Claims about arrival                                                    *)
(***************************************************************************)
\* the steps of the last handler that were onto the last cell of the path
Arrivals == { i \in 1..Len(stepLog) : stepLog[i].last }

\* the coordinator is as a command intake for target leaves it, result being
\* what the search from the actor's cell over the world as it is returns
IntakeRan(target, result) ==
    IF Len(result.path) <= 1
    THEN /\ movementStatus = "blocked"
         /\ playerPath = << >> /\ playerPathIndex = 0 /\ playerTarget = Null
         /\ \E i \in EventsOf("blocked") : events[i].reason = "unreachable"
    ELSE /\ movementStatus = IF result.usedFallback THEN "fallback-path" ELSE "moving"
         /\ playerPath = result.path /\ playerPathIndex = 1
         /\ playerTarget = Last(result.path)
         /\ activeDestination = Last(result.path)
         /\ result.usedFallback \/ Last(result.path) = target

\* the search of a command intake for target, run now
IntakeSearch(target) ==
    findNavigationPath(ActorGrid(world, PlayerId), target,
                       buildNavigationGrid(getFrameSnapshot(world, 0), reservedTiles,
                                           PlayerId),
                       MoveOptions(TRUE))

\* C15: when the actor commits the step onto the last cell of its path, the
\* session is cleared and "arrived" is reported; with a queued target at that
\* moment the queue is emptied and a command intake for exactly that target
\* runs in the same update call; with none the coordinator is left with no
\* path, no target and no active destination
C15_ArrivalClearsAndDequeues ==
    \A i \in Arrivals :
       /\ i = Len(stepLog)
       /\ \E j \in EventsOf("arrived") :
             /\ events[j].at = stepLog[i].to
             /\ events[j].queued = stepLog[i].queued
       /\ ActorGrid(world, PlayerId) = stepLog[i].to
       /\ queuedTarget = Null
       /\ IF stepLog[i].queued # Null
          THEN IntakeRan(stepLog[i].queued, IntakeSearch(stepLog[i].queued))
          ELSE /\ playerPath = << >> /\ playerPathIndex = 0
               /\ playerTarget = Null /\ activeDestination = Null
               /\ stepLog[i].pending = Null => movementStatus = "arrived"

\* an arrival found a queued target and a path of two cells or more to it
C15_Witness ==
    \E i \in Arrivals :
       /\ stepLog[i].queued # Null
       /\ Len(playerPath) > 1
       /\ playerTarget = stepLog[i].queued


\* the step is a cancel that leaves no path, cursor 0, no target, no queued
\* target, no active destination and no reservation
CancelClears ==
    /\ playerPath' = << >>
    /\ playerPathIndex' = 0
    /\ playerTarget' = Null
    /\ queuedTarget' = Null
    /\ activeDestination' = Null
    /\ reservedTiles' = EmptyMap
    /\ movementStatus' = "cancelled"

\* the step is a frame that leaves the actor where it stands and the
\* coordinator cancelled
FrameAfterCancelStill ==
    /\ ActorGrid(world', PlayerId) = ActorGrid(world, PlayerId)
    /\ movementStatus' = "cancelled"
    /\ playerPath' = << >>
    /\ stepLog' = << >>

\* C16: cancelMovement, from any state, leaves an empty path, cursor 0, no
\* target, no queued target, no active destination and an empty reservation
\* table; cancelling twice gives the state cancelling once gives; and once
\* cancelled, no frame moves the actor for as long as no command is taken
C16_CancelClearsAndStops ==
    /\ [][call'.op = "onRightClick" => CancelClears]_vars
    /\ [](cancelMovement(cancelMovement(Self, "cancelled"), "cancelled")
             = cancelMovement(Self, "cancelled"))
    /\ [][movementStatus = "cancelled" /\ call'.op = "render" => FrameAfterCancelStill]_vars

\* a session on its way to a door was cancelled and a frame has passed since
C16_Witness ==
    /\ movementStatus = "cancelled"
    /\ call.op = "render"
    /\ pendingDoorInteraction # Null
    /\ playerPath = << >>


\* the step is a move-to-tile command that plans: the programmatic command,
\* or a click on a tile with no session under way
PlanningCommand ==
    \/ call'.op = "debugMoveToTile"
    \/ call'.op = "onPointerClick" /\ ~SessionUnderWay

\* C17: a move-to-tile command whose path has 0 or 1 cells reports "blocked",
\* dispatches a blocked event and creates no session: path, cursor, target,
\* active destination, queued target and re-path counter are as before the
\* command, and the actor does not move
C17_NoPathNoSession ==
    [][PlanningCommand /\ Len(IntakeSearch(call'.tile).path) <= 1 =>
          /\ movementStatus' = "blocked"
          /\ \E i \in 1..Len(events') :
                events'[i].type = "blocked" /\ events'[i].reason = "unreachable"
          /\ UNCHANGED << playerPath, playerPathIndex, playerTarget, activeDestination,
                          queuedTarget, repathAttempts, world >>]_vars

\* the programmatic command found no path while a session was under way
C17_Witness ==
    /\ call.op = "debugMoveToTile"
    /\ movementStatus = "blocked"
    /\ SessionUnderWay
    /\ Len(IntakeSearch(call.tile).path) <= 1


(***************************************************************************)
(* Claims about door actions                                               *)
(***************************************************************************)
\* C18: a door action (open, close, key, lockpick), executed at once or
\* deferred, changes the state of a door only at a moment when the actor
\* stands at Chebyshev distance exactly 1 from the door: every change of the
\* door's state comes with a door event of the handler, and every door event
\* is dispatched with the actor on a neighbour of the door
C18_DoorChangesOnlyWhenAdjacent ==
    /\ [](\A i \in EventsOf("door") :
             Chebyshev(events[i].at, DoorGridOf(world)) = 1)
    /\ [][DoorStateOf(world') # DoorStateOf(world) =>
             \E i \in 1..Len(events') :
                /\ events'[i].type = "door"
                /\ events'[i].doorState = DoorStateOf(world')
                /\ events'[i].at = ActorGrid(world', PlayerId)]_vars

\* a deferred door action changed the door as a session arrived next to it
C18_Witness ==
    /\ call.op = "render"
    /\ \E i \in EventsOf("door") : Chebyshev(events[i].at, DoorGridOf(world)) = 1
    /\ \E i \in Arrivals : stepLog[i].pending # Null


\* the step is a door action on the door, asked for with the actor not on a
\* neighbour of the door and with a neighbour of the door that a path leads to
RequestFromRange ==
    /\ call'.op = "performDoorAction"
    /\ call'.entityId = DoorId
    /\ Chebyshev(ActorGrid(world, PlayerId), DoorGridOf(world)) # 1
    /\ findDoorApproachTile(getFrameSnapshot(world, 0), reservedTiles,
                            ActorGrid(world, PlayerId), DoorGridOf(world)) # Null

\* the step starts a session to a neighbour of the door, reports
\* "moving-to-door", defers the action and leaves the door as it is
ApproachStarted ==
    /\ movementStatus' = "moving-to-door"
    /\ Len(playerPath') > 1
    /\ playerPathIndex' = 1
    /\ playerPath'[1] = ActorGrid(world, PlayerId)
    /\ Chebyshev(Last(playerPath'), DoorGridOf(world)) = 1
    /\ playerTarget' = Last(playerPath')
    /\ pendingDoorInteraction' = [doorId |-> DoorId, action |-> call'.action]
    /\ world' = world

\* the door action does not fit the state of the door: open on a door that is
\* not closed, close on a door that is not open, key or lockpick on a door
\* that is not locked
TurnedDown(doorState, action) ==
    \/ action = "open" /\ doorState # "closed"
    \/ action = "close" /\ doorState # "open"
    \/ action \in { "key", "lockpick" } /\ doorState # "locked"

\* the state the door action leaves a door of the given state in
DoorAfter(doorState, action) ==
    IF doorState = "locked"
    THEN IF action \in { "key", "lockpick" } THEN "closed" ELSE "locked"
    ELSE IF action = "open" THEN "open"
    ELSE IF action = "close" THEN "closed"
    ELSE doorState

\* the queued target the arrival i found, if any, was planned over the world
\* as it is
QueuedPlanned(i) ==
    stepLog[i].queued # Null =>
       IntakeRan(stepLog[i].queued, IntakeSearch(stepLog[i].queued))

\* the queued target of every arrival that found a door action deferred was
\* planned over the world the action left
QueuedAfterDeferred ==
    \A i \in Arrivals : stepLog[i].pending # Null => QueuedPlanned(i)

\* the step is a frame; if no session arrives in it the door is left as it is;
\* if a session arrives on a neighbour of the door with a door action
\* deferred, the action is executed once (the door changes as the action says,
\* with one door event exactly when it changes, and nothing is left deferred)
DeferredAtArrival ==
    /\ Arrivals' = {} => DoorStateOf(world') = DoorStateOf(world)
    /\ \A i \in Arrivals' :
          LET pending == stepLog'[i].pending
          IN  pending # Null /\ Chebyshev(stepLog'[i].to, DoorGridOf(world)) = 1 =>
                 /\ pendingDoorInteraction' = Null
                 /\ DoorStateOf(world') = DoorAfter(DoorStateOf(world), pending.action)
                 /\ Cardinality({ j \in 1..Len(events') : events'[j].type = "door" })
                       = IF DoorStateOf(world') # DoorStateOf(world) THEN 1 ELSE 0

\* C19: a door action asked for while the actor is not next to the door, with
\* a reachable neighbour of the door, starts a session to that neighbour with
\* status "moving-to-door" and leaves the door as it is until the session
\* arrives; at the arrival next to the door the deferred action is executed
\* exactly once, before a queued move target is taken up
C19_ApproachThenAct ==
    /\ [][/\ RequestFromRange => ApproachStarted
          /\ call'.op = "render" => DeferredAtArrival]_vars
    /\ []QueuedAfterDeferred

\* C19 as amended: the same of a door action that fits the state of the door
\* (open on a closed door, close on an open door, key or lockpick on a locked
\* door); one that does not is turned down with its status and starts no
\* session
C19_FittingActionApproachesThenActs ==
    /\ [][/\ RequestFromRange =>
                IF TurnedDown(DoorStateOf(world), call'.action)
                THEN /\ movementStatus' \in { "door-locked", "door-already-open",
                                             "door-already-closed", "door-not-locked" }
                     /\ UNCHANGED << world, playerPath, playerPathIndex, playerTarget,
                                     queuedTarget, pendingDoorInteraction >>
                ELSE ApproachStarted
          /\ call'.op = "render" => DeferredAtArrival]_vars
    /\ []QueuedAfterDeferred

\* a session arrived next to the closed door with "open" deferred and a target
\* behind the door queued: the door is open and the path to the queued target
\* is planned
C19_Witness ==
    \E i \in Arrivals :
       /\ stepLog[i].pending # Null
       /\ stepLog[i].pending.action = "open"
       /\ stepLog[i].queued = P(14, 10)
       /\ DoorStateOf(world) = "open"
       /\ EventsOf("door") # {}
       /\ playerTarget = P(14, 10)



\* the status that reports the unlocking by the action
UnlockStatus(action) ==
    IF action = "key" THEN "door-unlocked-key" ELSE "door-unlocked-lockpick"

\* the step is a key or lockpick action on the door, asked for by the menu:
\* on a door that is not locked it changes nothing and reports
\* "door-not-locked"; on a locked door, with the actor next to it, it leaves
\* the door closed and reports the unlocking; from range the door stays locked
UnlockAsked ==
    call'.op = "performDoorAction" /\ call'.entityId = DoorId
       /\ call'.action \in { "key", "lockpick" } =>
          IF DoorStateOf(world) # "locked"
          THEN /\ movementStatus' = "door-not-locked"
               /\ UNCHANGED << world, playerPath, playerPathIndex, playerTarget,
                               queuedTarget, pendingDoorInteraction >>
          ELSE IF Chebyshev(ActorGrid(world, PlayerId), DoorGridOf(world)) = 1
          THEN /\ DoorStateOf(world') = "closed"
               /\ movementStatus' = UnlockStatus(call'.action)
          ELSE DoorStateOf(world') = "locked"

\* the step is a frame in which a session arrives next to the door with a key
\* or lockpick action deferred: a locked door is left closed, a door that is
\* not locked is left as it is; the status tells which, unless a queued
\* target was planned after it
UnlockDeferred ==
    call'.op = "render" =>
       \A i \in Arrivals' :
          LET pending == stepLog'[i].pending
          IN  /\ pending # Null
              /\ pending.action \in { "key", "lockpick" }
              /\ Chebyshev(stepLog'[i].to, DoorGridOf(world)) = 1
              => /\ DoorStateOf(world') =
                       IF DoorStateOf(world) = "locked" THEN "closed"
                       ELSE DoorStateOf(world)
                 /\ stepLog'[i].queued = Null =>
                       movementStatus' =
                          IF DoorStateOf(world) = "locked" THEN UnlockStatus(pending.action)
                          ELSE "door-not-locked"

\* the step takes the door out of state locked only into state closed, and
\* into state open only from state closed and by an open action, asked for in
\* this step or deferred until it
OpenOnlyByOpen ==
    /\ DoorStateOf(world) = "locked" /\ DoorStateOf(world') # "locked" =>
          DoorStateOf(world') = "closed"
    /\ DoorStateOf(world) # "open" /\ DoorStateOf(world') = "open" =>
          /\ DoorStateOf(world) = "closed"
          /\ \/ call'.op = "performDoorAction" /\ call'.action = "open"
             \/ /\ call'.op = "render"
                /\ \E i \in Arrivals' :
                      stepLog'[i].pending # Null /\ stepLog'[i].pending.action = "open"

\* C20: a key or lockpick action executed on a locked door leaves the door
\* closed, never open, and reports "door-unlocked-key" or
\* "door-unlocked-lockpick" by the action; on a door that is not locked it
\* changes nothing and reports "door-not-locked"; the door becomes open only
\* by an open action of its own, on the closed door
C20_UnlockLeavesClosed ==
    [][UnlockAsked /\ UnlockDeferred /\ OpenOnlyByOpen]_vars

\* a lockpick action deferred until the arrival next to the locked door left
\* the door closed
C20_Witness ==
    /\ call.op = "render"
    /\ DoorStateOf(world) = "closed"
    /\ movementStatus = "door-unlocked-lockpick"
    /\ \E i \in EventsOf("door") : events[i].doorState = "closed"
    /\ \E i \in Arrivals : stepLog[i].pending # Null


(***************************************************************************)
(* Searches: over a grid in hand, and by the coordinator                   *)
(***************************************************************************)
\* either a grid that is searched, or a renderer over a world
SearchNext ==
    \/ world = NoWorld /\ PathNext
    \/ world # NoWorld /\ Next

SpecSearch == (PathInit \/ Init) /\ [][SearchNext]_vars

\* the events of a handler with which a search that found no path ended: the
\* blocked event of a command intake, the repath_failed of a blocked step
SearchFailedAt(evs) ==
    { i \in 1..Len(evs) :
        \/ evs[i].type = "blocked" /\ evs[i].reason = "unreachable"
        \/ evs[i].type = "repath_failed" }

\* C21: findNavigationPath leaves the grid it searches as it was (tiles,
\* obstacles, the position index, occupancy: after the call the grid is the
\* grid the call was given, whether a path was found or not), and a command
\* intake or re-path whose search fails leaves the reservation table as it was
\* when the search began (at the event before it, or when the handler began).
C21_SearchChangesNothing ==
    [][/\ query' # query => Grid' = Grid
       /\ (query' = query /\ prevResult' # prevResult) =>
             Grid' = setDoorState(Grid, call'.id, call'.state).grid
       /\ \A i \in SearchFailedAt(events') :
             events'[i].reserved =
                 (IF i = 1 THEN reservedTiles ELSE events'[i - 1].reserved)
       /\ (SearchFailedAt(events') # {} /\ call'.op # "render") =>
             reservedTiles' = reservedTiles]_vars

\* a frame in which the actor arrived and the search for the queued target
\* found no path
C21_Witness ==
    /\ call.op = "render"
    /\ \E i \in EventsOf("blocked") :
          /\ events[i].reason = "unreachable"
          /\ i > 1
          /\ events[i - 1].type = "arrived"
          /\ events[i - 1].queued # Null


(***************************************************************************)
(* Export and import of the runtime state                                  *)
(***************************************************************************)
\* the collaborator keeps what debugExportRuntimeState returns
DebugExportRuntimeState ==
    /\ commands < MaxCommands
    /\ commands' = commands + 1
    /\ saved' = debugExportRuntimeState(Self)
    /\ Become(Handling)
    /\ call' = [op |-> "debugExportRuntimeState"]
    /\ UNCHANGED << gridVars, pathVars, controller >>

\* and hands it back later
DebugImportRuntimeState ==
    /\ saved # NoSave
    /\ Become(debugImportRuntimeState(Handling, saved))
    /\ call' = [op |-> "debugImportRuntimeState"]
    /\ UNCHANGED << gridVars, pathVars, commands, saved, controller >>

SaveNext ==
    \/ Next
    \/ DebugExportRuntimeState
    \/ DebugImportRuntimeState

SpecSave == Init /\ [][SaveNext]_vars

\* C22: importing a record that was exported while a session was in flight
\* restores that movement: exporting right after the import yields the
\* exported record (queued target, active destination, target, patrol index,
\* pending door and moving = true), and the deferred door action is the one
\* that was pending when the record was exported.
C22_ImportRestoresInFlight ==
    [][(call'.op = "debugImportRuntimeState" /\ saved.moving) =>
          /\ debugExportRuntimeState(Self)' = saved
          /\ isPlayerMoving(Self)']_vars


(***************************************************************************)
(* Claims about the obstacle records                                       *)
(***************************************************************************)
\* C23: after any sequence of setObstacle and removeObstacle calls the grid
\* holds at most one obstacle record for any position: a setObstacle on a
\* position held by another obstacle replaces that obstacle, so after the
\* call the obstacle just set is the only record with its position.
C23_OneObstaclePerPosition ==
    /\ OnePerPosition(Grid)
    /\ call.op = "setObstacle" =>
          \A other \in DOMAIN obstacles :
             obstacles[other].pos = obstacles[call.id].pos => other = call.id


(***************************************************************************)
(* Claims about the paths findNavigationPath returns                       *)
(***************************************************************************)
\* C24: every non-empty path returned begins with start, ends with
\* resolvedGoal, visits no cell twice, and each two consecutive cells are
\* grid-adjacent: they differ by exactly one in x or in y (not both) when
\* allowDiagonal is false, by at most one in each and not both zero when it is
\* true.  A path is empty exactly when resolvedGoal is null.
C24_PathShape ==
    Searched =>
        LET path == navResult.path
        IN  /\ (path = << >>) <=> (navResult.resolvedGoal = Null)
            /\ path # << >> =>
                  /\ path[1] = query.start
                  /\ Last(path) = navResult.resolvedGoal
                  /\ \A i, j \in 1..Len(path) : path[i] = path[j] => i = j
                  /\ \A i \in 1..(Len(path) - 1) :
                        LET dx == Abs(path[i + 1].x - path[i].x)
                            dy == Abs(path[i + 1].y - path[i].y)
                        IN  IF query.options.allowDiagonal
                            THEN dx <= 1 /\ dy <= 1 /\ dx + dy > 0
                            ELSE dx + dy = 1

\* a path of four cells or more to a fallback cell, found without diagonal
\* steps
C24_Witness ==
    /\ Searched
    /\ ~query.options.allowDiagonal
    /\ navResult.usedFallback
    /\ Len(navResult.path) >= 4


(***************************************************************************)
(* Path searches over grids with terrain costs                             *)
(***************************************************************************)
\* the grids have at most MaxCostBlocked blocked cells
MaxCostBlocked == 1
CostBlockedSets == { b \in SUBSET Cells : Cardinality(b) <= MaxCostBlocked }
\* the cells whose tile is set again with another terrain cost: none, one
\* cell, or one row
RepricedSets ==
    { {} } \cup { { c } : c \in Cells } \cup { { c \in Cells : c.y = y } : y \in Coords }
\* the terrain costs they get: 0.1 and 30
RepricedCosts == { Fin(1), Fin(300) }

\* setTile again on the cells of repriced that have a tile
RECURSIVE RepriceFrom(_, _, _, _)
RepriceFrom(g, repriced, cost, i) ==
    IF i >= GridSize * GridSize THEN g
    ELSE LET pos == P(i % GridSize, i \div GridSize)
         IN  RepriceFrom(
               IF pos \in repriced /\ HasTile(g, pos)
               THEN setTile(g, FloorTile(pos, g.tiles[posKey(pos)].walkable, cost))
               ELSE g,
               repriced, cost, i + 1)

CostInit ==
    /\ \E blocked \in CostBlockedSets, repriced \in RepricedSets, cost \in RepricedCosts :
          LET g == RepriceFrom(BuildGrid(blocked), repriced, cost, 0)
          IN  /\ tiles = g.tiles
              /\ obstacles = g.obstacles
              /\ obstacleByPos = g.obstacleByPos
              /\ occupiedByPos = g.occupiedByPos
    /\ call = NoCall
    /\ query = NoQuery
    /\ navResult = NoResult
    /\ prevResult = NoResult
    /\ world = NoWorld
    /\ RendererConstructed
    /\ commands = 0
    /\ saved = NoSave
    /\ controller = NoController

SpecCost == CostInit /\ [][PathNext]_vars

\* the cost of a path: each step's distance times the terrain cost of the
\* cell it enters (1e-6 units)
RECURSIVE PathCost(_, _, _)
PathCost(g, path, i) ==
    IF i >= Len(path) THEN 0
    ELSE stepDistance(path[i], path[i + 1]) * movementCost(g, path[i + 1]).v
            + PathCost(g, path, i + 1)

NoCost == 0 - 1
MinOf(set) == CHOOSE m \in set : \A n \in set : m <= n

\* one round of relaxation over the moves the options allow between cells the
\* grid answers walkable; cheapest[c] is the least cost known of a valid path
\* from the start to c, NoCost when none is known
Relaxed(g, options, cheapest) ==
    [b \in Cells |->
        LET known == IF cheapest[b] = NoCost THEN {} ELSE { cheapest[b] }
            via == { cheapest[a] + stepDistance(a, b) * movementCost(g, b).v :
                       a \in { c \in Cells :
                                 cheapest[c] # NoCost /\ WalkMove(g, c, b, options) } }
        IN  IF known \cup via = {} THEN NoCost ELSE MinOf(known \cup via)]

RECURSIVE CheapestFrom(_, _, _)
CheapestFrom(g, options, cheapest) ==
    LET next == Relaxed(g, options, cheapest)
    IN  IF next = cheapest THEN cheapest ELSE CheapestFrom(g, options, next)

\* the least cost of a valid path from start to goal
MinCost(g, start, goal, options) ==
    CheapestFrom(g, options, [c \in Cells |-> IF c = start THEN 0 ELSE NoCost])[goal]

\* a search from a start to a walkable goal that returned a path
PathToWalkableGoal ==
    /\ Searched
    /\ navResult.path # << >>
    /\ query.goal \in Cells
    /\ Walkable(Grid, query.goal)

\* C25: on every grid (any stored positive terrain costs, costs below 1
\* included), for any start and walkable goal, the cost of a returned
\* non-empty path (the sum over its steps of the step distance, 1 or sqrt(2),
\* times the terrain cost of the cell entered) is the least among the valid
\* paths from start to the goal.
C25_PathCostMinimal ==
    PathToWalkableGoal =>
        PathCost(Grid, navResult.path, 1)
            = MinCost(Grid, query.start, query.goal, query.options)

\* every stored terrain cost is 1 or more
CostsAtLeastOne(g) == \A k \in DOMAIN g.tiles : g.tiles[k].terrainCost >= CostOne

\* C25, amended: the same on every grid whose stored terrain costs are all 1
\* or more.
C25_PathCostMinimalFromCostOne ==
    PathToWalkableGoal /\ CostsAtLeastOne(Grid) =>
        PathCost(Grid, navResult.path, 1)
            = MinCost(Grid, query.start, query.goal, query.options)

\* every cell is walkable and one of them costs 30: the path found takes more
\* steps than the straight route and costs less than any path through the
\* costly cell could
C25_Witness ==
    /\ PathToWalkableGoal
    /\ CostsAtLeastOne(Grid)
    /\ \A c \in Cells : Walkable(Grid, c)
    /\ \E c \in Cells : movementCost(Grid, c) = Fin(300)
    /\ Len(navResult.path) - 1
          > heuristic(query.start, query.goal, query.options.allowDiagonal)
    /\ PathCost(Grid, navResult.path, 1) < StepOrth * 300


\* the run of the last call: its result with the number of nodes it expanded
LastRun == findNavigationPathRun(query.start, query.goal, Grid, query.options)
\* the cells a sequence of allowed moves leads to from the start
Reach == WalkReachableFrom(Grid, query.start, query.options)
\* a route of allowed moves connects the walkable start and the walkable goal
RouteExists == Walkable(Grid, query.start) /\ Walkable(Grid, query.goal) /\ query.goal \in Reach

\* C26: if start and goal are walkable, some sequence of allowed moves (onto
\* walkable cells; with preventCornerCutting only diagonals whose two corner
\* cells are walkable) connects them and maxIterations is at least the number
\* of cells reachable from start, a non-empty path is returned; an empty path
\* is returned only when no such route exists or the iteration cap was hit.
C26_FindsRouteThatExists ==
    Searched =>
        /\ (RouteExists /\ query.options.maxIterations >= Cardinality(Reach)) =>
              navResult.path # << >>
        /\ navResult.path = << >> =>
              \/ ~RouteExists
              \/ LastRun.iterations >= query.options.maxIterations

\* under the small cap, a path of as many cells as the cap, over a start from
\* which exactly that many cells can be reached
C26_Witness ==
    /\ Searched
    /\ RouteExists
    /\ query.options.maxIterations = SmallIterations
    /\ Cardinality(Reach) = SmallIterations
    /\ Len(navResult.path) = SmallIterations


\* the same call without a cap to speak of: how many nodes the search expands
\* until it expands the goal or runs out of nodes
UncappedRun ==
    findNavigationPathRun(query.start, query.goal, Grid,
                          [query.options EXCEPT !.maxIterations = 5000])

\* C27: findNavigationPath ends on every input, having expanded at most
\* maxIterations nodes (and no cell twice: at most as many nodes as cells can
\* be reached from start); when the cap is reached before the goal is
\* expanded the result is an empty path with resolvedGoal = null.
C27_ExpansionsCapped ==
    Searched =>
        /\ LastRun.iterations <= query.options.maxIterations
        /\ LastRun.iterations <= Cardinality(Reach)
        /\ pathResult(LastRun) = navResult
        /\ UncappedRun.iterations > query.options.maxIterations =>
              /\ navResult.path = << >>
              /\ navResult.resolvedGoal = Null
              /\ LastRun.iterations = query.options.maxIterations

\* a route exists and the search would have to expand more nodes than the
\* small cap allows
C27_Witness ==
    /\ Searched
    /\ RouteExists
    /\ query.options.maxIterations = SmallIterations
    /\ UncappedRun.iterations > SmallIterations
    /\ UncappedRun.path # << >>



\* ---------------------------------------------------------------------
\* The budget of re-path attempts.  The patrolling npc moves one cell every
\* npcMoveStepMs; with frames that long it enters the player's next cell
\* again and again, and one session meets more than maxRepathAttempts
\* blocked steps.

\* the world without its wall
OpenWorldOf(playerStart, doorState) ==
    [WorldOf(playerStart, doorState) EXCEPT !.entities = SubSeq(@, 1, 3)]
ChaseStarts == { P(10, 9), P(12, 9), P(14, 10) }
ChaseTargets == { P(11, 11), P(10, 11) }
ChaseDeltas == { npcMoveStepMs }

ChaseInit ==
    /\ tiles = EmptyMap
    /\ obstacles = EmptyMap
    /\ obstacleByPos = EmptyMap
    /\ occupiedByPos = EmptyMap
    /\ call = NoCall
    /\ query = NoQuery
    /\ navResult = NoResult
    /\ prevResult = NoResult
    /\ \E playerStart \in ChaseStarts, doorState \in DoorStates :
          world = OpenWorldOf(playerStart, doorState)
    /\ RendererConstructed
    /\ commands = 0
    /\ saved = NoSave
    /\ controller = NoController

ChaseNext ==
    \/ \E deltaMs \in ChaseDeltas : Frame(deltaMs)
    \/ \E tile \in ChaseTargets : DebugMoveToTile(tile)
    \/ \E tile \in ChaseTargets : PointerClick(tile)
    \/ RightClick
    \/ \E action \in DoorMenuActions : PerformDoorAction(DoorId, action)

SpecChase == ChaseInit /\ [][ChaseNext]_vars

\* the session that a command intake has just created
SessionJustCreated ==
    /\ isPlayerMoving(Self)
    /\ playerPathIndex = 1
    /\ moveAccumulatorMs = 0
    /\ playerTarget = playerPath[Len(playerPath)]
    /\ activeDestination = playerTarget

\* C28: the attempt counter never exceeds maxRepathAttempts (3); it goes
\* back to 0 only in a handler that leaves a session a command intake has
\* just created; every blocked step is answered in the same handler, by one
\* more counted search (a repath_started or a repath_failed that carries the
\* count plus one) while fewer than 3 attempts were used, and by a
\* repath_failed with the unchanged count 3, so without a search, once 3
\* were used; a handler that ends with that failure leaves no session and
\* the status repath-failed.
C28_RepathBudget ==
    [][/\ repathAttempts' <= maxRepathAttempts
       /\ repathAttempts' < repathAttempts =>
             repathAttempts' = 0 /\ SessionJustCreated'
       /\ \A i \in EventsOf("blocked")' :
             events'[i].reason # "unreachable" =>
                /\ events'[i].attempts <= maxRepathAttempts
                /\ i < Len(events')
                /\ IF events'[i].attempts >= maxRepathAttempts
                   THEN /\ events'[i + 1].type = "repath_failed"
                        /\ events'[i + 1].attempts = maxRepathAttempts
                        /\ i + 1 = Len(events')
                        /\ movementStatus' = "repath-failed"
                        /\ ~isPlayerMoving(Self)'
                        /\ playerTarget' = Null
                        /\ repathAttempts' = maxRepathAttempts
                   ELSE /\ events'[i + 1].type \in { "repath_started", "repath_failed" }
                        /\ events'[i + 1].attempts = events'[i].attempts + 1]_vars

\* a blocked step met after three attempts were used ended the session
C28_Witness ==
    /\ call.op = "render"
    /\ movementStatus = "repath-failed"
    /\ \E i \in EventsOf("blocked") :
          /\ events[i].attempts = maxRepathAttempts
          /\ events[i + 1].type = "repath_failed"


\* ---------------------------------------------------------------------
\* The events of a re-path attempt.

\* the counts the handler's re-path attempts took the counter through
AttemptsMade == { k \in 1..maxRepathAttempts : repathAttempts < k /\ k <= repathAttempts' }
StartedWith(evs, k) == { i \in 1..Len(evs) : evs[i].type = "repath_started" /\ evs[i].attempts = k }

FirstSearch(s, frameMs) ==
    LET snapshot == getFrameSnapshot(s.world, frameMs)
    IN  findNavigationPath(
          snapshot.entities[findEntity(snapshot.entities, PlayerId)].grid,
          s.playerTarget,
          buildNavigationGrid(snapshot, s.reservedTiles, PlayerId),
          MoveOptions(TRUE))
\* the handler began with a blocked step that led to a counted search
BeganBlocked(evs, log, at) ==
    /\ Len(evs) >= 2
    /\ evs[1].type = "blocked"
    /\ evs[1].reason # "unreachable"
    /\ evs[1].attempts < maxRepathAttempts
    /\ IF evs[2].type = "repath_started" THEN evs[2].at = at ELSE log = << >>

npcClock == << npcMoveAccumulatorMs, npcPatrolIndex >>
FrameClock(deltaMs) ==
    /\ call' = [op |-> "render", deltaMs |-> deltaMs]
    /\ npcMoveAccumulatorMs' =
          IF npcMoveAccumulatorMs + tickFrameMs(deltaMs) < npcMoveStepMs
          THEN npcMoveAccumulatorMs + tickFrameMs(deltaMs) ELSE 0
    /\ npcPatrolIndex' =
          IF npcMoveAccumulatorMs + tickFrameMs(deltaMs) < npcMoveStepMs
          THEN npcPatrolIndex ELSE (npcPatrolIndex + 1) % Len(npcPatrolPath)

SpecChaseLive ==
    /\ ChaseInit
    /\ [][ChaseNext]_vars
    /\ WF_npcClock(\E deltaMs \in ChaseDeltas : FrameClock(deltaMs))

\* the last handler ended a session: by an arrival, or by tearing it down
SessionEnded ==
    \/ EventsOf("arrived") # {}
    \/ ~isPlayerMoving(Self) /\ movementStatus \in { "repath-failed", "blocked" }

\* C30: a session under way ends, by an arrival or with the status
\* repath-failed or blocked, unless a further command is issued first; the
\* status does not stay moving or repathing unless a further command is
\* issued; and every blocked step is answered in the same handler, by a
\* replacement path (repath_started, the session going on or ended by an
\* arrival later in that handler) or by a torn-down session (repath_failed
\* last, no path, no target, no reservation, status repath-failed).
C30_SessionEnds ==
    /\ \A c \in 0..MaxCommands :
          (isPlayerMoving(Self) /\ commands = c) ~> (SessionEnded \/ commands # c)
    /\ \A c \in 0..MaxCommands :
          (movementStatus \in { "moving", "repathing" } /\ commands = c)
             ~> (movementStatus \notin { "moving", "repathing" } \/ commands # c)
    /\ [][\A i \in EventsOf("blocked")' :
             events'[i].reason # "unreachable" =>
                /\ i < Len(events')
                /\ \/ /\ events'[i + 1].type = "repath_started"
                      /\ isPlayerMoving(Self)' \/ EventsOf("arrived")' # {}
                                               \/ movementStatus' = "repath-failed"
                   \/ /\ events'[i + 1].type = "repath_failed"
                      /\ i + 1 = Len(events')
                      /\ playerPath' = << >>
                      /\ playerTarget' = Null
                      /\ reservedTiles' = EmptyMap
                      /\ movementStatus' = "repath-failed"]_vars

\* a session that was blocked and re-pathed has arrived
C30_Witness ==
    /\ call.op = "render"
    /\ EventsOf("arrived") # {}
    /\ repathAttempts > 0
    /\ ~isPlayerMoving(Self)


\* ---------------------------------------------------------------------
\* The deferred door action and the end of its session.

\* C31: a handler that cancels the movement, or that tears the session down
\* with repath_failed, leaves no door action pending (so that no later
\* arrival can execute one).
C31_PendingEndsWithSession ==
    [][(\/ call'.op = "onRightClick"
        \/ EventsOf("repath_failed")' # {}) =>
          pendingDoorInteraction' = Null]_vars


\* ---------------------------------------------------------------------
\* The reservation table between handlers.

\* C32: after every handler (frame, command, cancel, door action) the
\* reservation table is empty; the steps a frame committed each reserved
\* their cell and released it again.
C32_NoReservationSurvives ==
    reservedTiles = EmptyMap

\* a frame that committed several steps, each with its own reservation
C32_Witness ==
    /\ call.op = "render"
    /\ Len(stepLog) >= 2
    /\ reservedTiles = EmptyMap


\* ---------------------------------------------------------------------
\* A door no neighbour of which can be reached.

\* one move of the player over the world: onto a free cell, a diagonal only
\* past two free cells
WorldMove(w, a, b) ==
    /\ WorldCellFree(w, b, PlayerId)
    /\ Chebyshev(a, b) = 1
    /\ IsDiagonal(a, b) =>
          WorldCellFree(w, P(b.x, a.y), PlayerId) /\ WorldCellFree(w, P(a.x, b.y), PlayerId)
RECURSIVE WorldClosure(_, _)
WorldClosure(w, seen) ==
    LET more == { w.tiles[i].grid : i \in { j \in 1..Len(w.tiles) :
                      \E a \in seen : WorldMove(w, a, w.tiles[j].grid) } }
    IN  IF more \subseteq seen THEN seen ELSE WorldClosure(w, seen \cup more)
\* some neighbour of the door can be walked to from the player's cell
NeighbourReachable(w) ==
    \E c \in WorldClosure(w, { ActorGrid(w, PlayerId) }) : Chebyshev(c, DoorGridOf(w)) = 1
\* the step is a door action on the door, asked for with the actor not on a
\* neighbour of the door and with no neighbour of the door to walk to
RequestOutOfReach ==
    /\ call'.op = "performDoorAction"
    /\ call'.entityId = DoorId
    /\ Chebyshev(ActorGrid(world, PlayerId), DoorGridOf(world)) # 1
    /\ ~NeighbourReachable(world)
\* the step moved nothing and deferred nothing
NothingMoved ==
    /\ world' = world
    /\ playerPath' = playerPath
    /\ playerPathIndex' = playerPathIndex
    /\ playerTarget' = playerTarget
    /\ pendingDoorInteraction' = Null

\* C33 as stated: every door action asked for out of range of a door that
\* cannot be reached reports door-unreachable, moves nothing, leaves the
\* door as it is and leaves no door action pending.
C33_UnreachableDoorReported ==
    [][RequestOutOfReach => movementStatus' = "door-unreachable" /\ NothingMoved]_vars

\* C33 (amended): a door action that fits the door's state, asked for out
\* of range of a door that cannot be reached, reports door-unreachable,
\* moves nothing, leaves the door as it is and leaves no door action
\* pending; one that does not fit is turned down with its own status and
\* changes neither the world nor the session.
C33_FittingActionUnreachable ==
    [][RequestOutOfReach =>
          IF TurnedDown(DoorStateOf(world), call'.action)
          THEN /\ movementStatus' =
                     doorActionRefused(
                        world.entities[findEntity(world.entities, DoorId)], call'.action)
               /\ movementStatus' # "door-unreachable"
               /\ world' = world
               /\ playerPath' = playerPath
               /\ playerPathIndex' = playerPathIndex
               /\ playerTarget' = playerTarget
               /\ pendingDoorInteraction' = pendingDoorInteraction
          ELSE movementStatus' = "door-unreachable" /\ NothingMoved]_vars

\* a fitting door action was asked for with the player walled in
C33_Witness ==
    /\ call.op = "performDoorAction"
    /\ call.entityId = DoorId
    /\ movementStatus = "door-unreachable"
    /\ ~NeighbourReachable(world)
    /\ Chebyshev(ActorGrid(world, PlayerId), DoorGridOf(world)) > 1


\* ---------------------------------------------------------------------
\* Open and close, and the lock.

\* the arrivals of the handler that found an open or a close deferred, with
\* the player on a neighbour of the door
DeferredOpenClose(evs, w) ==
    { i \in 1..Len(evs) :
        /\ evs[i].type = "arrived"
        /\ evs[i].pending # Null
        /\ evs[i].pending.action \in { "open", "close" }
        /\ Chebyshev(evs[i].at, DoorGridOf(w)) = 1 }
StateAskedFor(action) == IF action = "open" THEN "open" ELSE "closed"

\* C34: a locked door loses its lock only to a key or lockpick action; an
\* open or close asked for on a locked door reports door-locked and changes
\* nothing, and one that was deferred and is executed at the arrival leaves
\* the door locked and reports door-locked (unless a queued target is
\* planned after it); on a door that is not locked an open or close that is
\* executed, at once from a neighbour of the door or at the arrival, leaves
\* the door open, respectively closed.
C34_OpenCloseRespectLock ==
    [][/\ (DoorStateOf(world) = "locked" /\ DoorStateOf(world') # "locked") =>
             \E i \in EventsOf("door")' :
                /\ "unlockedBy" \in DOMAIN events'[i]
                /\ events'[i].unlockedBy \in { "key", "lockpick" }
       /\ (call'.op = "performDoorAction" /\ call'.entityId = DoorId
             /\ call'.action \in { "open", "close" }) =>
             IF DoorStateOf(world) = "locked"
             THEN movementStatus' = "door-locked" /\ world' = world
             ELSE Chebyshev(ActorGrid(world, PlayerId), DoorGridOf(world)) = 1 =>
                     DoorStateOf(world') = StateAskedFor(call'.action)
       /\ call'.op = "render" =>
             \A i \in DeferredOpenClose(events', world) :
                IF DoorStateOf(world) = "locked"
                THEN /\ DoorStateOf(world') = "locked"
                     /\ events'[i].queued = Null => movementStatus' = "door-locked"
                ELSE DoorStateOf(world') = StateAskedFor(events'[i].pending.action)]_vars

\* a deferred open was executed at the arrival on a locked door
C34_Witness ==
    /\ call.op = "render"
    /\ DoorStateOf(world) = "locked"
    /\ movementStatus = "door-locked"
    /\ \E i \in EventsOf("arrived") :
          /\ events[i].pending # Null
          /\ events[i].pending.action = "open"
          /\ Chebyshev(events[i].at, DoorGridOf(world)) = 1


\* ---------------------------------------------------------------------
\* Key and lockpick, and the credential.

\* the DoorOpenContext the renderer's door actions work with: the renderer
\* holds no key and no skill and hands none on
HeldContext == [hasKey |-> "undefined", lockpickSkill |-> NoNumber]

\* C35: a door loses its lock only when the credential rule of tryOpenDoor
\* is satisfied (a key is held, or the lockpick skill is at least
\* LockpickThreshold); otherwise the action is denied and the door stays
\* locked.
C35_UnlockNeedsCredential ==
    [][(DoorStateOf(world) = "locked" /\ DoorStateOf(world') # "locked") =>
          (HeldContext.hasKey = "true" \/ canPick(HeldContext))]_vars


\* ---------------------------------------------------------------------
\* The destination, the target and the path.

\* C36: while a session is moving, the active destination, the session's
\* target and the last cell of the path are one cell; while none is moving,
\* the active destination and the target are both null.
C36_DestinationMatchesSession ==
    IF isPlayerMoving(Self)
    THEN /\ playerTarget = Last(playerPath)
         /\ activeDestination = playerTarget
    ELSE /\ activeDestination = Null
         /\ playerTarget = Null


\* ---------------------------------------------------------------------
\* The steps of the player.

\* the cell the player stood on before step k of the handler
CellBeforeStep(log, k, before) == IF k = 1 THEN before ELSE log[k - 1].to

\* C37: every step a handler commits takes the player to a cell at
\* Chebyshev distance exactly 1 from the cell it stood on just before, and
\* while a session is moving the player stands on the path cell before the
\* cursor.
C37_StepsAdjacentOnPath ==
    [][/\ \A k \in 1..Len(stepLog') :
             Chebyshev(CellBeforeStep(stepLog', k, ActorGrid(world, PlayerId)),
                       stepLog'[k].to) = 1
       /\ isPlayerMoving(Self)' =>
             ActorGrid(world', PlayerId) = playerPath'[playerPathIndex']]_vars


\* ---------------------------------------------------------------------
\* The steps of the patrol npc.

\* the patrol waypoint the patrol index designates
DesignatedWaypoint(index) == npcPatrolPath[index + 1]

\* the frame committed a step of the npc: the patrol index went on and the
\* npc stands on the waypoint it designates
NpcStepCommitted ==
    /\ npcPatrolIndex' # npcPatrolIndex
    /\ ActorGrid(world', NpcId) = DesignatedWaypoint(npcPatrolIndex')

\* C38: every committed step of the patrol npc takes it to a cell at
\* Chebyshev distance exactly 1 from the cell it stood on, and after every
\* frame the npc stands on the waypoint the patrol index designates, also
\* after a frame in which the player stood on its next waypoint.
C38_NpcStepsAlongPatrol ==
    [][call'.op = "render" =>
          /\ NpcStepCommitted =>
                Chebyshev(ActorGrid(world, NpcId), ActorGrid(world', NpcId)) = 1
          /\ ActorGrid(world', NpcId) = DesignatedWaypoint(npcPatrolIndex')]_vars


\* ---------------------------------------------------------------------
\* The obstacle records and the position index.

\* an obstacle record that blocks an actor that ignores no body
RecordBlocks(rec) ==
    \/ rec.type = "wall"
    \/ rec.type = "door" /\ rec.state # "open"
    \/ rec.type = "body"

\* a position with a walkable tile and no occupancy entry: whether it is
\* walkable is decided by the obstacles alone
DecidedByObstacles(g, pos) == FloorAt(g, pos) /\ ~OccupantAt(g, pos, Undefined)

\* setObstacle took the obstacle id, the only record on its position, to
\* another position
MovedAlone(id) ==
    /\ call'.op = "setObstacle" /\ call'.id = id
    /\ id \in DOMAIN obstacles
    /\ obstacles'[id].pos # obstacles[id].pos
    /\ ObstaclesAt(Grid, obstacles[id].pos) = {id}

\* removeObstacle took the record id off a position on which other, a
\* blocking obstacle, was set later: the position index names other
RemovedUnder(id, other) ==
    /\ call'.op = "removeObstacle" /\ call'.id = id
    /\ id \in DOMAIN obstacles /\ other \in DOMAIN obstacles /\ other # id
    /\ obstacles[other].pos = obstacles[id].pos
    /\ posKey(obstacles[id].pos) \in DOMAIN obstacleByPos
    /\ obstacleByPos[posKey(obstacles[id].pos)] = other
    /\ RecordBlocks(obstacles[other])

\* C39: in any sequence of setObstacle and removeObstacle calls, an obstacle
\* set again under its id on another position no longer blocks the position
\* it left, and removeObstacle(id) does not unblock a position on which
\* another blocking obstacle, set later, is still present.
C39_BlockingByPresentObstacle ==
    [][/\ \A id \in ObstacleIds :
             (MovedAlone(id) /\ DecidedByObstacles(Grid, obstacles[id].pos)) =>
                 isWalkable(Grid', obstacles[id].pos, Undefined)
       /\ \A id, other \in ObstacleIds :
             (RemovedUnder(id, other) /\ DecidedByObstacles(Grid, obstacles[id].pos)) =>
                 ~isWalkable(Grid', obstacles[id].pos, Undefined)]_vars


(***************************************************************************)
(* MovementController                                                      *)
(***************************************************************************)
\* movement/pathfinding.ts: the loop over neighbors(current) of findPath;
\* open after the neighbours nbrs[i..] were considered.  walkable is the set
\* of the cells isWalkable answers true for
RECURSIVE findPathRelax(_, _, _, _, _, _, _, _)
findPathRelax(open, closed, current, nbrs, i, goal, walkable, allowDiagonal) ==
    IF i > Len(nbrs) THEN open
    ELSE
      LET next == nbrs[i]
          nextKey == keyOf(next)
          moveCost == IF allowDiagonal /\ next.x # current.x /\ next.y # current.y
                      THEN StepDiag ELSE StepOrth
          tentativeG == current.g + moveCost
          h == heuristic(next, goal, allowDiagonal) * StepOrth
          skip ==
            \/ next \notin walkable
            \/ nextKey \in DOMAIN closed
            \/ (OpenHas(open, nextKey) /\ tentativeG >= OpenGet(open, nextKey).g)
          open2 ==
            IF skip THEN open
            ELSE OpenSet(open, nextKey,
                         [x |-> next.x, y |-> next.y, g |-> tentativeG, h |-> h,
                          f |-> tentativeG + h, parentKey |-> keyOf(current)])
      IN  findPathRelax(open2, closed, current, nbrs, i + 1, goal, walkable,
                        allowDiagonal)

\* the while loop of findPath
RECURSIVE findPathLoop(_, _, _, _, _, _, _)
findPathLoop(open, closed, iterations, goal, walkable, allowDiagonal, maxIterations) ==
    IF ~(Len(open) > 0 /\ iterations < maxIterations) THEN << >>
    ELSE
      LET current == BestOpen(open)
          currentKey == keyOf(current)
          open1 == OpenDelete(open, currentKey)
          closed1 == MapSet(closed, currentKey, current)
      IN  IF current.x = goal.x /\ current.y = goal.y
          THEN reconstructPath(closed1, current)
          ELSE findPathLoop(
                 findPathRelax(open1, closed1, current,
                               neighbors(current, allowDiagonal), 1, goal, walkable,
                               allowDiagonal),
                 closed1, iterations + 1, goal, walkable, allowDiagonal, maxIterations)

\* findPath(start, goal, isWalkable, allowDiagonal), maxIterations = 5000
findPath(start, goal, walkable, allowDiagonal) ==
    IF start \notin walkable \/ goal \notin walkable THEN << >>
    ELSE IF start.x = goal.x /\ start.y = goal.y THEN << start >>
    ELSE LET h0 == heuristic(start, goal, allowDiagonal) * StepOrth
         IN  findPathLoop(<< [key |-> keyOf(start),
                              node |-> [x |-> start.x, y |-> start.y, g |-> 0, h |-> h0,
                                        f |-> h0, parentKey |-> Undefined]] >>,
                          EmptyMap, 0, goal, walkable, allowDiagonal, 5000)

\* isometric.ts gridToScreen
gridToScreen(pos, tileWidth, tileHeight) ==
    [x |-> (pos.x - pos.y) * (tileWidth \div 2),
     y |-> (pos.x + pos.y) * (tileHeight \div 2)]

\* seconds are counted in units of 1 / TicksPerSecond
TicksPerSecond == 8

\* distance(a, b) of two cells of one row or one column (the controllers
\* here take no diagonal steps): Math.sqrt of a square
distance(a, b) == Abs(b.x - a.x) + Abs(b.y - a.y)

\* lerp(a, b, t) for t = num / den
lerp(a, b, num, den) == a + ((b - a) * num) \div den

\* the walkable cells of the controller's isWalkable: a room of 3 x 2 cells
\* with the cell (1,1) blocked
MoveWalkable == { P(0, 0), P(1, 0), P(2, 0), P(0, 1), P(2, 1) }
\* the tiles handed to moveToTile: the room's cells and a cell outside
ControllerTargets == MoveWalkable \cup { P(1, 1), P(4, 0) }
\* moveSpeedTilesPerSecond: a step of one cell lasts 1/2 s or 1/4 s
MoveSpeeds == { 2, 4 }
\* deltaSeconds of the update calls, in ticks: 1/8 s, 1/4 s, 1/2 s
MoveDeltas == { 1, 2, 4 }
\* the moveToTile calls of one run
MaxMoves == 3

MovementConfig(speed) ==
    [tileWidth |-> 64, tileHeight |-> 32, moveSpeedTilesPerSecond |-> speed,
     allowDiagonal |-> FALSE]

\* new MovementController(startTile, config, isWalkable)
newMovementController(startTile, config) ==
    [config |-> config,
     state |-> [currentTile |-> startTile,
                screenPos |-> gridToScreen(startTile, config.tileWidth, config.tileHeight),
                isMoving |-> FALSE, path |-> << >>, pathIndex |-> 0]]

\* moveToTile(targetTile): the controller after the call and what it returns
moveToTile(c, targetTile) ==
    LET path == findPath(c.state.currentTile, targetTile, MoveWalkable,
                         c.config.allowDiagonal)
    IN  IF Len(path) <= 1 THEN [controller |-> c, ret |-> FALSE]
        ELSE [controller |-> [c EXCEPT !.state.path = path, !.state.pathIndex = 1,
                                      !.state.isMoving = TRUE],
              ret |-> TRUE]

\* finishStep(tile, screen)
finishStep(c, tile, screen) ==
    LET c1 == [c EXCEPT !.state.currentTile = tile, !.state.screenPos = screen,
                        !.state.pathIndex = @ + 1]
    IN  IF c1.state.pathIndex >= Len(c1.state.path)
        THEN [c1 EXCEPT !.state.path = << >>, !.state.pathIndex = 0,
                        !.state.isMoving = FALSE]
        ELSE c1

\* update(deltaSeconds), deltaSeconds = deltaTicks / TicksPerSecond:
\* stepDuration = distance / speed, advance = min(1, delta / stepDuration)
update(c, deltaTicks) ==
    IF ~c.state.isMoving \/ c.state.pathIndex >= Len(c.state.path)
    THEN [c EXCEPT !.state.isMoving = FALSE]
    ELSE
      LET fromTile == c.state.currentTile
          toTile == c.state.path[c.state.pathIndex + 1]
          stepLength == distance(fromTile, toTile)
          fromScreen == gridToScreen(fromTile, c.config.tileWidth, c.config.tileHeight)
          toScreen == gridToScreen(toTile, c.config.tileWidth, c.config.tileHeight)
          \* delta / stepDuration = num / den
          num == deltaTicks * c.config.moveSpeedTilesPerSecond
          den == TicksPerSecond * stepLength
          reached == num >= den
          c1 == [c EXCEPT !.state.screenPos =
                     IF reached THEN toScreen
                     ELSE [x |-> lerp(fromScreen.x, toScreen.x, num, den),
                           y |-> lerp(fromScreen.y, toScreen.y, num, den)]]
      IN  IF stepLength <= 0 THEN finishStep(c, toTile, toScreen)
          ELSE IF reached THEN finishStep(c1, toTile, toScreen)
          ELSE c1

\* a controller on the cell (0,0)
MoveInit ==
    /\ tiles = EmptyMap
    /\ obstacles = EmptyMap
    /\ obstacleByPos = EmptyMap
    /\ occupiedByPos = EmptyMap
    /\ call = NoCall
    /\ query = NoQuery
    /\ navResult = NoResult
    /\ prevResult = NoResult
    /\ world = NoWorld
    /\ RendererConstructed
    /\ commands = 0
    /\ saved = NoSave
    /\ \E speed \in MoveSpeeds :
          controller = newMovementController(P(0, 0), MovementConfig(speed))

rendererVars ==
    << world, playerPath, playerPathIndex, playerTarget, queuedTarget, activeDestination,
       moveAccumulatorMs, repathAttempts, reservedTiles, npcPatrolIndex,
       npcMoveAccumulatorMs, pendingDoorInteraction, movementStatus, stepLog, events >>

MoveToTile(targetTile) ==
    /\ commands < MaxMoves
    /\ commands' = commands + 1
    /\ controller' = moveToTile(controller, targetTile).controller
    /\ call' = [op |-> "moveToTile", target |-> targetTile,
                ret |-> moveToTile(controller, targetTile).ret]
    /\ UNCHANGED << gridVars, pathVars, rendererVars, saved >>

UpdateController(deltaTicks) ==
    /\ controller' = update(controller, deltaTicks)
    /\ call' = [op |-> "update", deltaTicks |-> deltaTicks]
    /\ UNCHANGED << gridVars, pathVars, rendererVars, commands, saved >>

MoveNext ==
    \/ \E targetTile \in ControllerTargets : MoveToTile(targetTile)
    \/ \E deltaTicks \in MoveDeltas : UpdateController(deltaTicks)

SpecMove == MoveInit /\ [][MoveNext]_vars

\* update is called again and again, with whatever positive deltas
SpecMoveLive ==
    /\ MoveInit
    /\ [][MoveNext]_vars
    /\ WF_vars(\E deltaTicks \in MoveDeltas : UpdateController(deltaTicks))

\* C40: after a moveToTile that returned true, the repeated update calls,
\* whatever their positive deltas, bring currentTile to the target tile and
\* isMoving to false, unless moveToTile is called again first; also when
\* every delta is shorter than the duration of one step.
C40_UpdatesReachTarget ==
    \A n \in 1..MaxMoves : \A targetTile \in ControllerTargets :
        (commands = n /\ call.op = "moveToTile" /\ call.ret /\ call.target = targetTile)
          ~> \/ /\ controller.state.currentTile = targetTile
                /\ ~controller.state.isMoving
             \/ commands > n

====
